---- MODULE Spec2Model ----
(***************************************************************************)
(* A model of fh's flake.nix editor: the position index, the attribute-    *)
(* path walk, the text edits and the add / convert commands that drive     *)
(* them (src/cli/cmd/add.rs, add/mod.rs, convert.rs).                       *)
(*                                                                         *)
(* Text is a sequence of one-character strings.  Offsets are 0-based, as   *)
(* Rust's are: the character at offset k of buffer b is b[k + 1].          *)
(***************************************************************************)
EXTENDS Integers, Sequences, FiniteSets, TLC

VARIABLES
    pbuf,       \* position index: the buffer handed to position_to_offset
    ppos,       \* position index: the requested position
    pres,       \* position index: the call's result, NotCalled before the call
    pspan,      \* position index: the result of span_to_start_end_offsets
    variant,    \* add: which AddSubcommand runs, "add.rs" or "add/mod.rs"
    file,       \* add: flake.nix on disk, [exists, contents]
    writes,     \* add: how many times the command has written flake.nix
    prev,       \* add: [name, url, contents] of the last run that wrote, or None
    pc,         \* add: where execute stands
    stage,      \* add: the last step execute took
    started,    \* add: [file, writes] when the command started
    args,       \* add: [ref, input_name], the command line
    inputBuf,   \* add: the contents read (input / flake_contents)
    parsedExpr, \* add: their parse (parsed.expression)
    outputBuf,  \* add: the working buffer (output / new_flake_contents)
    inputName,  \* add: the inferred input name (flake_input_name)
    inputUrl,   \* add: the inferred input URL, as it prints (flake_input_url)
    err,        \* add: the error execute returned with, NoErr if none
    edits,      \* add: the edits the upsert applied to the buffer, in order
    firstRaw,   \* add: the first raw part the walk recorded, None if cleared
    shellNix,   \* convert: shell.nix on disk, [exists, contents]
    defaultNix, \* convert: default.nix on disk, [exists, contents]
    compatName, \* convert: flake_compat_input_name, None before it is found
    git,        \* convert: what the git commands said, None before they ran
    wrote,      \* convert: the files this run has written, in order
    printed,    \* convert: the texts this run has printed to stdout, in order
    requests    \* the requests this run has sent to the registry, in order, each
                \* with the answer it got

posVars == <<pbuf, ppos, pres, pspan>>
diskVars == <<variant, file, writes, prev>>
runVars ==
    <<pc, stage, started, args, inputBuf, parsedExpr, outputBuf, inputName, inputUrl,
      err, edits, firstRaw>>
convVars == <<shellNix, defaultNix, compatName, git, wrote, printed>>
netVars == <<requests>>
vars == <<posVars, diskVars, runVars, convVars, netVars>>

----------------------------------------------------------------------------
(* Bounds of the position-index specification. *)
MaxBufLen == 4
MaxLine == 4
MaxColumn == 4

NEWLINE == "\n"

None == [kind |-> "None"]
NoErr == [kind |-> "NoErr"]
NotCalled == [kind |-> "NotCalled"]

----------------------------------------------------------------------------
(* Rust's String operations used by the edits. *)

\* String::insert_str(idx, s)
InsertStr(buf, idx, s) ==
    SubSeq(buf, 1, idx) \o s \o SubSeq(buf, idx + 1, Len(buf))

\* String::replace_range(start..end, "")
RemoveRange(buf, start, end) ==
    SubSeq(buf, 1, start) \o SubSeq(buf, end + 1, Len(buf))

\* &input[start..end]
Slice(buf, start, end) == SubSeq(buf, start + 1, end)

----------------------------------------------------------------------------
(* Position index. *)

Position(l, c) == [line |-> l, column |-> c]

PosErr(position) ==
    [kind |-> "Err", msg |-> "could not find position in input",
     line |-> position.line, column |-> position.column]

\* The for loop of position_to_offset, one character per call: idx is the
\* offset of the next character, (line, column) the position computed for
\* it.
RECURSIVE ScanFrom(_, _, _, _, _)
ScanFrom(input, position, idx, line, column) ==
    IF idx >= Len(input) \/ <<column, line>> = <<position.column, position.line>>
    THEN IF idx >= Len(input) THEN [ok |-> FALSE, err |-> PosErr(position)]
         ELSE [ok |-> TRUE, idx |-> idx]
    ELSE ScanFrom(input, position, idx + 1,
                  IF input[idx + 1] = NEWLINE THEN line + 1 ELSE line,
                  IF input[idx + 1] = NEWLINE THEN 1 ELSE column + 1)

\* A scan that forgets to reset the column at a line break.
RECURSIVE ScanNoReset(_, _, _, _, _)
ScanNoReset(input, position, idx, line, column) ==
    IF idx >= Len(input)
    THEN [ok |-> FALSE, err |-> PosErr(position)]
    ELSE IF column = position.column /\ line = position.line
    THEN [ok |-> TRUE, idx |-> idx]
    ELSE IF input[idx + 1] = NEWLINE
    THEN ScanNoReset(input, position, idx + 1, line + 1, column + 1)
    ELSE ScanNoReset(input, position, idx + 1, line, column + 1)

position_to_offset_noreset(input, position) ==
    ScanNoReset(input, position, 0, 1, 1)

\* A scan that tests the position after advancing instead of before.
RECURSIVE ScanLate(_, _, _, _, _)
ScanLate(input, position, idx, line, column) ==
    IF idx >= Len(input)
    THEN [ok |-> FALSE, err |-> PosErr(position)]
    ELSE LET l == IF input[idx + 1] = NEWLINE THEN line + 1 ELSE line
             c == IF input[idx + 1] = NEWLINE THEN 1 ELSE column + 1
         IN  IF c = position.column /\ l = position.line
             THEN [ok |-> TRUE, idx |-> idx]
             ELSE ScanLate(input, position, idx + 1, l, c)

position_to_offset_late(input, position) ==
    ScanLate(input, position, 0, 1, 1)

\* A scan that also resolves the position just after the last character,
\* to the length of the buffer.
RECURSIVE ScanToEnd(_, _, _, _, _)
ScanToEnd(input, position, idx, line, column) ==
    IF column = position.column /\ line = position.line
    THEN [ok |-> TRUE, idx |-> idx]
    ELSE IF idx >= Len(input)
    THEN [ok |-> FALSE, err |-> PosErr(position)]
    ELSE IF input[idx + 1] = NEWLINE
    THEN ScanToEnd(input, position, idx + 1, line + 1, 1)
    ELSE ScanToEnd(input, position, idx + 1, line, column + 1)

position_to_offset_to_end(input, position) ==
    ScanToEnd(input, position, 0, 1, 1)

position_to_offset(input, position) ==
    ScanFrom(input, position, 0, 1, 1)

span_to_start_end_offsets(input, span) ==
    LET s == position_to_offset(input, span.start)
        e == position_to_offset(input, span.end)
    IN  IF ~s.ok THEN [ok |-> FALSE, err |-> s.err]
        ELSE IF ~e.ok THEN [ok |-> FALSE, err |-> e.err]
        ELSE [ok |-> TRUE, start |-> s.idx, end |-> e.idx]

----------------------------------------------------------------------------
(* The parser, nixel::parse, an external library: a recursive-descent      *)
(* parser of the subset of Nix the documents below use.  It gives what     *)
(* the editor reads from nixel's tree: Map { bindings }, String { parts }, *)
(* Function { head }, KeyValue { from, to }, Inherit { span },             *)
(* Part::Raw { content, span } and Part::Interpolation, with 1-based       *)
(* (line, column) positions and spans whose end is the position just       *)
(* after the last character.  A string's Raw part spans the text between   *)
(* the quotes, the string itself the quotes too.  Text that does not parse *)
(* gives an Error expression.                                              *)

Letters ==
    {"a", "b", "c", "d", "e", "f", "g", "h", "i", "j", "k", "l", "m",
     "n", "o", "p", "q", "r", "s", "t", "u", "v", "w", "x", "y", "z", "M"}

Digits == {"0", "1", "2", "3", "4", "5", "6", "7", "8", "9"}

IdentChars == Letters \cup Digits \cup {"-", "_"}

At(buf, i) == IF i >= 1 /\ i <= Len(buf) THEN buf[i] ELSE "EOF"

\* The position of the character at 1-based index i.
PosAt(buf, i) ==
    LET breaks == {j \in 1..(i - 1) : buf[j] = NEWLINE}
        last == IF breaks = {} THEN 0
                ELSE CHOOSE j \in breaks : \A k \in breaks : k <= j
    IN  Position(1 + Cardinality(breaks), i - last)

\* The first index from i on whose character is not in chars; the index
\* after the text when there is none.
FirstNotIn(buf, i, chars) ==
    LET stops == {j \in i..Len(buf) : buf[j] \notin chars}
    IN  IF stops = {} THEN (IF i > Len(buf) THEN i ELSE Len(buf) + 1)
        ELSE CHOOSE j \in stops : \A k \in stops : j <= k

\* The first index from i on whose character is in chars; the index after
\* the text when there is none.
FirstIn(buf, i, chars) ==
    LET stops == {j \in i..Len(buf) : buf[j] \in chars}
    IN  IF stops = {} THEN (IF i > Len(buf) THEN i ELSE Len(buf) + 1)
        ELSE CHOOSE j \in stops : \A k \in stops : j <= k

LineEnd(buf, i) == FirstIn(buf, i, {NEWLINE})

\* Skips blanks, line breaks and # comments.
RECURSIVE SkipWs(_, _)

SkipComment(buf, j) ==
    IF At(buf, j) = "#" THEN SkipWs(buf, LineEnd(buf, j)) ELSE j

SkipWs(buf, i) == SkipComment(buf, FirstNotIn(buf, i, {" ", NEWLINE}))

IdentEnd(buf, i) == FirstNotIn(buf, i, IdentChars)

ParseFail == [ok |-> FALSE]

RawPart(buf, i, e) ==
    [kind |-> "Raw", content |-> SubSeq(buf, i, e - 1),
     span |-> [start |-> PosAt(buf, i), end |-> PosAt(buf, e)]]

InterpolationPart(buf, i, e) ==
    [kind |-> "Interpolation",
     span |-> [start |-> PosAt(buf, i), end |-> PosAt(buf, e)]]

\* The index after the brace that closes an interpolation whose identifier
\* ends before index e, 0 when the brace is missing.
InterpolationClose(buf, e) == IF At(buf, e) = "}" THEN e + 1 ELSE 0

\* ${ident} at i: the index after the closing brace, 0 when there is none.
InterpolationEnd(buf, i) ==
    IF At(buf, i) = "$" /\ At(buf, i + 1) = "{" /\ At(buf, i + 2) \in Letters
    THEN InterpolationClose(buf, IdentEnd(buf, i + 2))
    ELSE 0

\* Where the run of literal text from index i ends: at the closing quote,
\* at an interpolation, or after the text.
RawEnd(buf, i) ==
    LET stops == {j \in i..Len(buf) :
                     \/ buf[j] = "\""
                     \/ buf[j] = "$" /\ At(buf, j + 1) = "{"}
    IN  IF stops = {} THEN (IF i > Len(buf) THEN i ELSE Len(buf) + 1)
        ELSE CHOOSE j \in stops : \A k \in stops : j <= k

\* The parts of a string, from index i inside the quotes.
RECURSIVE ParseParts(_, _, _)

\* The string continues after an interpolation that ends before index e.
PartsAfterInterpolation(buf, i, e, acc) ==
    IF e = 0 THEN ParseFail
    ELSE ParseParts(buf, e, Append(acc, InterpolationPart(buf, i, e)))

\* The string continues after literal text that ends before index e.
PartsAfterRaw(buf, i, e, acc) ==
    ParseParts(buf, e, Append(acc, RawPart(buf, i, e)))

ParseParts(buf, i, acc) ==
    IF At(buf, i) = "EOF" THEN ParseFail
    ELSE IF At(buf, i) = "\"" THEN [ok |-> TRUE, parts |-> acc, next |-> i + 1]
    ELSE IF At(buf, i) = "$" /\ At(buf, i + 1) = "{"
    THEN PartsAfterInterpolation(buf, i, InterpolationEnd(buf, i), acc)
    ELSE PartsAfterRaw(buf, i, RawEnd(buf, i), acc)

StringNode(buf, i, r) ==
    IF ~r.ok THEN ParseFail
    ELSE [ok |-> TRUE, next |-> r.next,
          node |-> [kind |-> "String", parts |-> r.parts, start |-> PosAt(buf, i),
                    end |-> PosAt(buf, r.next)]]

ParseString(buf, i) == StringNode(buf, i, ParseParts(buf, i + 1, <<>>))

\* The key of a binding, a.b.c, from index i: its parts in order.
RECURSIVE ParseAttrPath(_, _, _)

\* After one part of the key, at index j: a dot continues the key.
AttrPathNext(buf, j, acc) ==
    IF At(buf, j) = "." THEN ParseAttrPath(buf, SkipWs(buf, j + 1), acc)
    ELSE [ok |-> TRUE, parts |-> acc, next |-> j]

\* The part of the key from index i that ends before index e.
AttrPathPart(buf, i, e, acc) ==
    IF e = 0 THEN ParseFail
    ELSE AttrPathNext(buf, SkipWs(buf, e),
                      Append(acc, IF At(buf, i) \in Letters THEN RawPart(buf, i, e)
                                  ELSE InterpolationPart(buf, i, e)))

ParseAttrPath(buf, i, acc) ==
    AttrPathPart(buf, i,
                 IF At(buf, i) \in Letters THEN IdentEnd(buf, i)
                 ELSE InterpolationEnd(buf, i),
                 acc)

\* Whether the text from index j, just inside an opening brace, is the
\* head of a function.
FunctionHeadAt(buf, j) ==
    \/ At(buf, j) = "."
    \/ At(buf, j) = "}" /\ At(buf, SkipWs(buf, j + 1)) \in {":", "@"}
    \/ /\ At(buf, j) \in Letters
       /\ At(buf, SkipWs(buf, IdentEnd(buf, j))) \in {",", "}"}

\* Whether the brace at i opens the head of a function, { a, ... }: body,
\* and not an attribute set.
IsFunctionHead(buf, i) == FunctionHeadAt(buf, SkipWs(buf, i + 1))

\* The arguments of a destructured function head, from index i.
RECURSIVE ParseArguments(_, _, _, _)

\* After an argument, at index k: a comma separates it from the next.
ArgumentSep(buf, k, acc, ellipsis) ==
    ParseArguments(buf, IF At(buf, k) = "," THEN k + 1 ELSE k, acc, ellipsis)

\* The argument from index j that ends before index e.
ArgumentEnd(buf, j, e, acc, ellipsis) ==
    ArgumentSep(buf, SkipWs(buf, e),
                Append(acc, [identifier |-> SubSeq(buf, j, e - 1)]), ellipsis)

ArgumentAt(buf, j, acc, ellipsis) ==
    IF At(buf, j) = "}"
    THEN [ok |-> TRUE, arguments |-> acc, ellipsis |-> ellipsis, next |-> j + 1]
    ELSE IF At(buf, j) = "." /\ At(buf, j + 1) = "." /\ At(buf, j + 2) = "."
    THEN ParseArguments(buf, j + 3, acc, TRUE)
    ELSE IF At(buf, j) \in Letters
    THEN ArgumentEnd(buf, j, IdentEnd(buf, j), acc, ellipsis)
    ELSE ParseFail

ParseArguments(buf, i, acc, ellipsis) ==
    ArgumentAt(buf, SkipWs(buf, i), acc, ellipsis)

W_inherit == <<"i", "n", "h", "e", "r", "i", "t">>

\* inherit a b; at index i: the index after the semicolon, 0 when there is
\* none.
RECURSIVE InheritEnd(_, _)

InheritItem(buf, j) ==
    IF At(buf, j) = ";" THEN j + 1
    ELSE IF At(buf, j) \in Letters THEN InheritEnd(buf, IdentEnd(buf, j))
    ELSE 0

InheritEnd(buf, i) == InheritItem(buf, SkipWs(buf, i))

\* Whether the word inherit starts at index j and ends before index e.
IsInherit(buf, j, e) ==
    At(buf, j) \in Letters /\ SubSeq(buf, j, e - 1) = W_inherit

RECURSIVE ParseExpr(_, _)
RECURSIVE ParseBindings(_, _, _, _)

FunctionNode(buf, i, a, body) ==
    IF ~body.ok THEN ParseFail
    ELSE [ok |-> TRUE, next |-> body.next,
          node |-> [kind |-> "Function",
                    head |-> [kind |-> "Destructured", arguments |-> a.arguments,
                              ellipsis |-> a.ellipsis],
                    body |-> body.node, start |-> PosAt(buf, i),
                    end |-> PosAt(buf, body.next)]]

\* The colon of a function is expected at index k, its body after it.
FunctionBody(buf, i, a, k) ==
    IF At(buf, k) # ":" THEN ParseFail
    ELSE FunctionNode(buf, i, a, ParseExpr(buf, k + 1))

\* After the closing brace of the head, at index j: an optional @ name.
FunctionBind(buf, i, a, j) ==
    FunctionBody(buf, i, a,
                 IF At(buf, j) = "@"
                 THEN SkipWs(buf, IdentEnd(buf, SkipWs(buf, j + 1)))
                 ELSE j)

FunctionHead(buf, i, a) ==
    IF ~a.ok THEN ParseFail ELSE FunctionBind(buf, i, a, SkipWs(buf, a.next))

ParseFunction(buf, i) ==
    FunctionHead(buf, i, ParseArguments(buf, i + 1, <<>>, FALSE))

\* An inherit binding from index j that ends before index ie.
InheritBinding(buf, open, j, ie, acc) ==
    IF ie = 0 THEN ParseFail
    ELSE ParseBindings(buf, open, ie,
             Append(acc, [kind |-> "Inherit",
                          span |-> [start |-> PosAt(buf, j), end |-> PosAt(buf, ie)]]))

\* The semicolon of a binding is expected at index semi.
BindingEnd(buf, open, key, val, semi, acc) ==
    IF At(buf, semi) # ";" THEN ParseFail
    ELSE ParseBindings(buf, open, semi + 1,
             Append(acc, [kind |-> "KeyValue", from |-> key.parts, to |-> val.node]))

BindingValue(buf, open, key, val, acc) ==
    IF ~val.ok THEN ParseFail
    ELSE BindingEnd(buf, open, key, val, SkipWs(buf, val.next), acc)

BindingKey(buf, open, key, acc) ==
    IF ~key.ok THEN ParseFail
    ELSE IF At(buf, key.next) # "=" THEN ParseFail
    ELSE BindingValue(buf, open, key, ParseExpr(buf, key.next + 1), acc)

\* A binding, or the closing brace, at index j; an identifier there ends
\* before index e.
BindingAt(buf, open, j, e, acc) ==
    IF At(buf, j) = "}"
    THEN [ok |-> TRUE, next |-> j + 1,
          node |-> [kind |-> "Map", bindings |-> acc, start |-> PosAt(buf, open),
                    end |-> PosAt(buf, j + 1)]]
    ELSE IF IsInherit(buf, j, e)
    THEN InheritBinding(buf, open, j, InheritEnd(buf, e), acc)
    ELSE BindingKey(buf, open, ParseAttrPath(buf, j, <<>>), acc)

BindingFrom(buf, open, j, acc) == BindingAt(buf, open, j, IdentEnd(buf, j), acc)

\* The bindings of the attribute set opened at index open, from index i.
ParseBindings(buf, open, i, acc) == BindingFrom(buf, open, SkipWs(buf, i), acc)

ExprAt(buf, j) ==
    IF At(buf, j) = "\"" THEN ParseString(buf, j)
    ELSE IF At(buf, j) = "{"
    THEN IF IsFunctionHead(buf, j) THEN ParseFunction(buf, j)
         ELSE ParseBindings(buf, j, j + 1, <<>>)
    ELSE IF At(buf, j) \in Digits
    THEN [ok |-> TRUE, next |-> IdentEnd(buf, j),
          node |-> [kind |-> "Integer", start |-> PosAt(buf, j),
                    end |-> PosAt(buf, IdentEnd(buf, j))]]
    ELSE IF At(buf, j) \in Letters
    THEN [ok |-> TRUE, next |-> IdentEnd(buf, j),
          node |-> [kind |-> "Identifier", start |-> PosAt(buf, j),
                    end |-> PosAt(buf, IdentEnd(buf, j))]]
    ELSE ParseFail

ParseExpr(buf, i) == ExprAt(buf, SkipWs(buf, i))

\* The expression of a parse that consumed the whole text.
ParsedExpression(buf, r) ==
    IF r.ok /\ SkipWs(buf, r.next) = Len(buf) + 1 THEN r.node
    ELSE [kind |-> "Error", start |-> Position(1, 1), end |-> Position(1, 1)]

\* nixel::parse(text).expression
Parse(buf) == ParsedExpression(buf, ParseExpr(buf, 1))

----------------------------------------------------------------------------
(* The documents: flake.nix files the commands can find on disk.  A        *)
(* document is an attribute set of some of the bindings below, laid out    *)
(* in one of three ways.                                                   *)

\* inputs
W_inputs ==
    <<"i", "n", "p", "u", "t", "s">>

\* url
W_url ==
    <<"u", "r", "l">>

\* x
W_x ==
    <<"x">>

\* y
W_y ==
    <<"y">>

\* description = "x";
B_description ==
    <<"d", "e", "s", "c", "r", "i", "p", "t", "i", "o", "n", " ", "=", " ",
    "\"", "x", "\"", ";">>

\* outputs = { ... }: { };
B_outputs ==
    <<"o", "u", "t", "p", "u", "t", "s", " ", "=", " ", "{", " ", ".", ".",
    ".", " ", "}", ":", " ", "{", " ", "}", ";">>

\* inputs = { };
B_inputs_empty ==
    <<"i", "n", "p", "u", "t", "s", " ", "=", " ", "{", " ", "}", ";">>

\* inputs.x.url = "old";
B_x_url ==
    <<"i", "n", "p", "u", "t", "s", ".", "x", ".", "u", "r", "l", " ", "=",
    " ", "\"", "o", "l", "d", "\"", ";">>

\* inputs = { x.url = "old"; };
B_inputs_x_url ==
    <<"i", "n", "p", "u", "t", "s", " ", "=", " ", "{", " ", "x", ".", "u",
    "r", "l", " ", "=", " ", "\"", "o", "l", "d", "\"", ";", " ", "}", ";">>

\* inputs.x = { url = "old"; };
B_inputs_x ==
    <<"i", "n", "p", "u", "t", "s", ".", "x", " ", "=", " ", "{", " ", "u",
    "r", "l", " ", "=", " ", "\"", "o", "l", "d", "\"", ";", " ", "}", ";">>

\* inputs.x.url = "old${b}";
B_x_url_interp ==
    <<"i", "n", "p", "u", "t", "s", ".", "x", ".", "u", "r", "l", " ", "=",
    " ", "\"", "o", "l", "d", "$", "{", "b", "}", "\"", ";">>

\* inputs.x.url = "${b}old";
B_x_url_interp_first ==
    <<"i", "n", "p", "u", "t", "s", ".", "x", ".", "u", "r", "l", " ", "=",
    " ", "\"", "$", "{", "b", "}", "o", "l", "d", "\"", ";">>

\* inherit z;
B_inherit ==
    <<"i", "n", "h", "e", "r", "i", "t", " ", "z", ";">>

\* inputs.x = "old";
B_x_string ==
    <<"i", "n", "p", "u", "t", "s", ".", "x", " ", "=", " ", "\"", "o", "l",
    "d", "\"", ";">>

\* inputs.x.url = 1;
B_x_url_int ==
    <<"i", "n", "p", "u", "t", "s", ".", "x", ".", "u", "r", "l", " ", "=",
    " ", "1", ";">>

\* inputs.x.url = "";
B_x_url_empty ==
    <<"i", "n", "p", "u", "t", "s", ".", "x", ".", "u", "r", "l", " ", "=",
    " ", "\"", "\"", ";">>

\* ${b}.c = "old";
B_interp_key ==
    <<"$", "{", "b", "}", ".", "c", " ", "=", " ", "\"", "o", "l", "d",
    "\"", ";">>

\* inputs = { inherit z; };
B_inputs_inherit ==
    <<"i", "n", "p", "u", "t", "s", " ", "=", " ", "{", " ", "i", "n", "h",
    "e", "r", "i", "t", " ", "z", ";", " ", "}", ";">>

\* inputs = { y.url = "old"; };
B_inputs_y_url ==
    <<"i", "n", "p", "u", "t", "s", " ", "=", " ", "{", " ", "y", ".", "u",
    "r", "l", " ", "=", " ", "\"", "o", "l", "d", "\"", ";", " ", "}", ";">>

\* inputs = { x = { }; };
B_inputs_x_empty ==
    <<"i", "n", "p", "u", "t", "s", " ", "=", " ", "{", " ", "x", " ", "=",
    " ", "{", " ", "}", ";", " ", "}", ";">>

BindingLists ==
    {<<>>,
     <<B_description>>,
     <<B_description, B_outputs>>,
     <<B_inputs_empty, B_outputs>>,
     <<B_x_url>>,
     <<B_description, B_x_url>>,
     <<B_inputs_x_url>>,
     <<B_inputs_x>>,
     <<B_x_url_interp>>,
     <<B_x_url_interp_first>>,
     <<B_inherit, B_x_url>>,
     <<B_x_url, B_inherit>>,
     <<B_description, B_inherit>>,
     <<B_x_string>>,
     <<B_x_url_int>>,
     <<B_x_url_empty>>,
     <<B_interp_key, B_description>>,
     <<B_inputs_inherit>>,
     <<B_inputs_y_url, B_x_url>>,
     <<B_inputs_x_empty, B_x_url>>,
     <<B_inputs_y_url, B_inherit>>}

\* "indented": one binding a line, two blanks deep; "flush": one binding a
\* line, no indentation, under a comment line; "single": all on one line.
Layouts == {"indented", "flush", "single"}

Opening(layout) ==
    IF layout = "flush" THEN <<"{", NEWLINE, "#", " ", "c">> ELSE <<"{">>

Separator(layout) ==
    IF layout = "indented" THEN <<NEWLINE, " ", " ">>
    ELSE IF layout = "flush" THEN <<NEWLINE>>
    ELSE <<" ">>

Closing(layout) ==
    IF layout = "single" THEN <<" ", "}">> ELSE <<NEWLINE, "}", NEWLINE>>

RECURSIVE JoinBindings(_, _)
JoinBindings(layout, bs) ==
    IF bs = <<>> THEN <<>>
    ELSE Separator(layout) \o Head(bs) \o JoinBindings(layout, Tail(bs))

Document(layout, bs) ==
    Opening(layout) \o JoinBindings(layout, bs) \o Closing(layout)

Documents == {Document(l, bs) : l \in Layouts, bs \in BindingLists}

----------------------------------------------------------------------------
(* The editor of add.rs: the attribute-path walk and the two text edits.   *)

Err(msg, what, line, column) ==
    [kind |-> "Err", msg |-> msg, what |-> what, line |-> line, column |-> column]

\* An inherit error that reports where the inherit ends.
InheritErrAtEnd(inherit) ==
    Err("inherit not supported", "Inherit", inherit.span.end.line, inherit.span.end.column)

\* add.rs:247-254
InheritErr(inherit) ==
    Err("inherit not supported", "Inherit", inherit.span.start.line,
        inherit.span.start.column)

\* add.rs:262-270
UnsupportedErr(t) ==
    Err("unsupported expression type", t.kind, t.start.line, t.start.column)

\* add.rs:341-348
UnexpectedPartErr(part) ==
    Err("unexpected expression or interpolation", part.kind, part.span.start.line,
        part.span.start.column)

\* add.rs:354-358
MultiPartErr == Err("Nix string had multiple parts", "String", 0, 0)

\* A replacement that writes the new value at the span's end offset.
replace_input_value_at_end(parts, flake_input_value, input, output) ==
    IF parts = <<>> THEN [err |-> NoErr, output |-> output, replaced |-> FALSE]
    ELSE IF parts[1].kind # "Raw"
    THEN [err |-> UnexpectedPartErr(parts[1]), output |-> output, replaced |-> FALSE]
    ELSE LET o == span_to_start_end_offsets(input, parts[1].span)
         IN  IF ~o.ok THEN [err |-> o.err, output |-> output, replaced |-> FALSE]
             ELSE [err |-> IF Len(parts) > 1 THEN MultiPartErr ELSE NoErr,
                   output |-> InsertStr(RemoveRange(output, o.start, o.end), o.end,
                                        flake_input_value),
                   replaced |-> TRUE]

\* The buffer is overwritten in place before the check for a second part:
\* the result carries the buffer as the call leaves it, also on an error.
replace_input_value(parts, flake_input_value, input, output) ==
    IF parts = <<>> THEN [err |-> NoErr, output |-> output, replaced |-> FALSE]
    ELSE IF parts[1].kind # "Raw"
    THEN [err |-> UnexpectedPartErr(parts[1]), output |-> output, replaced |-> FALSE]
    ELSE LET o == span_to_start_end_offsets(input, parts[1].span)
         IN  IF ~o.ok THEN [err |-> o.err, output |-> output, replaced |-> FALSE]
             ELSE [err |-> IF Len(parts) > 1 THEN MultiPartErr ELSE NoErr,
                   output |-> InsertStr(RemoveRange(output, o.start, o.end), o.start,
                                        flake_input_value),
                   replaced |-> TRUE]

\* A separator line after every new binding, whatever the anchor.
AddsCosmeticNewlineAlways(first_raw) == first_raw.kind = "Raw"

\* add.rs:285
AddsCosmeticNewline(first_raw) == first_raw.content # W_inputs

insert_flake_input(first_raw, flake_input, input, output) ==
    LET cosmetic == AddsCosmeticNewline(first_raw)
        text == IF cosmetic THEN flake_input \o <<NEWLINE>> ELSE flake_input
        s == span_to_start_end_offsets(input, first_raw.span)
        inserted == InsertStr(output, s.start, text)
        indentation_span == [start |-> Position(first_raw.span.start.line, 1),
                             end |-> first_raw.span.start]
        ind == span_to_start_end_offsets(input, indentation_span)
        indentation == Slice(input, ind.start, ind.end)
        old_content_pos == Position(first_raw.span.start.line + 1
                                        + (IF cosmetic THEN 1 ELSE 0), 1)
        offset == position_to_offset(inserted, old_content_pos)
    IN  IF ~s.ok THEN [err |-> s.err, output |-> output]
        ELSE IF ~ind.ok THEN [err |-> ind.err, output |-> inserted]
        ELSE IF ~offset.ok THEN [err |-> offset.err, output |-> inserted]
        ELSE [err |-> NoErr, output |-> InsertStr(inserted, offset.idx, indentation)]

\* add.rs:185-195: the Raw parts of a binding's key, the others dropped.
RawsOf(from) == SelectSeq(from, LAMBDA part : part.kind = "Raw")

ContentsOf(raws) == [i \in 1..Len(raws) |-> raws[i].content]

\* add.rs:206-230: pops equal leading segments off both paths and stops at
\* the first difference, both paths keeping what was not matched.
RECURSIVE MatchAttrPath(_, _)
MatchAttrPath(search_attr_path, this_string_attr_path) ==
    IF search_attr_path = <<>> \/ this_string_attr_path = <<>>
          \/ Head(search_attr_path) # Head(this_string_attr_path)
    THEN [search |-> search_attr_path, this |-> this_string_attr_path]
    ELSE MatchAttrPath(Tail(search_attr_path), Tail(this_string_attr_path))

RECURSIVE update_flake_input(_, _, _, _, _, _)
RECURSIVE WalkBindings(_, _, _, _, _, _, _)

\* A walk that goes on to the next sibling when the value it went into held
\* no match.
WalkBindingsBacktracking(bindings, i, flake_input_value, input, output, attr_path, first_raw) ==
    IF i > Len(bindings)
    THEN [err |-> NoErr, output |-> output, first_raw |-> first_raw, replaced |-> FALSE]
    ELSE IF bindings[i].kind = "Inherit"
    THEN [err |-> InheritErr(bindings[i]), output |-> output, first_raw |-> first_raw,
          replaced |-> FALSE]
    ELSE LET raws == RawsOf(bindings[i].from)
             anchor == IF first_raw = None /\ raws # <<>> THEN raws[1] ELSE first_raw
             m == MatchAttrPath(attr_path, ContentsOf(raws))
             r == update_flake_input(bindings[i].to, flake_input_value, input, output,
                                     m.search, anchor)
         IN  IF m.this = <<>> /\ (r.err # NoErr \/ r.first_raw = None)
             THEN r
             ELSE WalkBindings(bindings, i + 1, flake_input_value, input, output,
                               attr_path, anchor)

\* A walk that leaves the anchor in place after it replaced a value.
update_flake_input_keeping_anchor(expr, flake_input_value, input, output, attr_path, first_raw) ==
    IF expr.kind = "Map"
    THEN WalkBindings(expr.bindings, 1, flake_input_value, input, output, attr_path,
                      first_raw)
    ELSE IF expr.kind = "String"
    THEN LET r == replace_input_value(expr.parts, flake_input_value, input, output)
         IN  [err |-> r.err, output |-> r.output, replaced |-> r.replaced,
              first_raw |-> first_raw]
    ELSE [err |-> UnsupportedErr(expr), output |-> output, first_raw |-> first_raw,
          replaced |-> FALSE]

\* add.rs:181-256: the for loop over a Map's bindings, from binding i.
WalkBindings(bindings, i, flake_input_value, input, output, attr_path, first_raw) ==
    IF i > Len(bindings)
    THEN [err |-> NoErr, output |-> output, first_raw |-> first_raw, replaced |-> FALSE]
    ELSE IF bindings[i].kind = "Inherit"
    THEN [err |-> InheritErr(bindings[i]), output |-> output, first_raw |-> first_raw,
          replaced |-> FALSE]
    ELSE LET raws == RawsOf(bindings[i].from)
             anchor == IF first_raw = None /\ raws # <<>> THEN raws[1] ELSE first_raw
             m == MatchAttrPath(attr_path, ContentsOf(raws))
         IN  IF m.this = <<>>
             THEN update_flake_input(bindings[i].to, flake_input_value, input, output,
                                     m.search, anchor)
             ELSE WalkBindings(bindings, i + 1, flake_input_value, input, output,
                               attr_path, anchor)

update_flake_input(expr, flake_input_value, input, output, attr_path, first_raw) ==
    IF expr.kind = "Map"
    THEN WalkBindings(expr.bindings, 1, flake_input_value, input, output, attr_path,
                      first_raw)
    ELSE IF expr.kind = "String"
    THEN LET r == replace_input_value(expr.parts, flake_input_value, input, output)
         IN  [err |-> r.err, output |-> r.output, replaced |-> r.replaced,
              first_raw |-> IF r.err = NoErr THEN None ELSE first_raw]
    ELSE [err |-> UnsupportedErr(expr), output |-> output, first_raw |-> first_raw,
          replaced |-> FALSE]

\* add.rs:87
FlakeInputText(flake_input_name, flake_input_value) ==
    W_inputs \o <<".">> \o flake_input_name \o <<".">> \o W_url
        \o <<" ", "=", " ", "\"">> \o flake_input_value \o <<"\"", ";", NEWLINE>>

\* The result: the error if any, the buffer as the call leaves it, the
\* edits applied to it in order, and the anchor the walk recorded.
upsert_flake_input(expr, flake_input_name, flake_input_value, input, output, attr_path) ==
    LET u == update_flake_input(expr, flake_input_value, input, output, attr_path, None)
        replaces == IF u.replaced THEN <<"replace">> ELSE <<>>
        i == insert_flake_input(u.first_raw,
                                FlakeInputText(flake_input_name, flake_input_value),
                                input, u.output)
    IN  IF u.err # NoErr
        THEN [err |-> u.err, output |-> u.output, edits |-> replaces, anchor |-> u.first_raw]
        ELSE IF u.first_raw = None
        THEN [err |-> NoErr, output |-> u.output, edits |-> replaces, anchor |-> None]
        ELSE [err |-> i.err, output |-> i.output, anchor |-> u.first_raw,
              edits |-> IF i.output # u.output THEN Append(replaces, "insert")
                        ELSE replaces]

----------------------------------------------------------------------------
(* Reference inference.  url::Url::parse is an external library: a         *)
(* reference is given with what the parse finds in it.  "hostless" is a    *)
(* URL without a host (github:a/x), segs its path split at "/" and text    *)
(* the URL as it prints; "relative" is a text without a scheme, the parse  *)
(* failing with RelativeUrlWithoutBase, segs the text split at "/";        *)
(* "hosted" is a URL with a host; "invalid" fails to parse otherwise.      *)

\* The --host / --api-addr global option: h://f
HostUrl ==
    <<"h", ":", "/", "/", "f">>

\* .tar.gz
W_tar_gz ==
    <<".", "t", "a", "r", ".", "g", "z">>

\* *.tar.gz
W_star_tar_gz ==
    <<"*", ".", "t", "a", "r", ".", "g", "z">>

Some(v) == [kind |-> "Some", value |-> v]

Reference(form, segs, text) == [form |-> form, segs |-> segs, text |-> text]

References ==
    {Reference("hostless", <<<<"a">>, W_x>>, <<"g", ":", "a", "/", "x">>),
     Reference("hostless", <<<<"a">>>>, <<"g", ":", "a">>),
     Reference("relative", <<<<"a">>, W_y>>, <<"a", "/", "y">>),
     Reference("relative", <<<<"a">>, W_x, <<"v", "1">>>>, <<"a", "/", "x", "/", "v", "1">>),
     Reference("relative", <<<<"a">>>>, <<"a">>),
     Reference("hosted", <<>>, <<"h", ":", "/", "/", "f", "/", "x">>),
     Reference("invalid", <<>>, <<":">>)}

InputNames == {None, Some(W_x)}

EndsWith(s, suffix) ==
    Len(s) >= Len(suffix) /\ SubSeq(s, Len(s) - Len(suffix) + 1, Len(s)) = suffix

\* str::strip_suffix(..).unwrap_or(..)
StripSuffix(s, suffix) ==
    IF EndsWith(s, suffix) THEN SubSeq(s, 1, Len(s) - Len(suffix)) ELSE s

\* str::strip_prefix('v').unwrap_or(..)
StripV(s) == IF s # <<>> /\ s[1] = "v" THEN Tail(s) ELSE s

\* Url::path_segments_mut().push("f").push(org).push(repo).push(version)
FlakehubUrl(host, org, repo, version) ==
    host \o <<"/", "f", "/">> \o org \o <<"/">> \o repo \o <<"/">> \o version

Inferred(name, url) == [ok |-> TRUE, name |-> name, url |-> url]

InferErr(msg) == [ok |-> FALSE, err |-> Err(msg, "", 0, 0)]

\* add.rs: the supplied input name is read only for a URL with a host.
infer_flake_input_name_url(host, ref, input_name) ==
    IF ref.form = "hostless"
    THEN IF Len(ref.segs) >= 2 THEN Inferred(ref.segs[2], ref.text)
         ELSE InferErr("cannot infer an input name")
    ELSE IF ref.form = "relative"
    THEN IF Len(ref.segs) = 3
         THEN Inferred(ref.segs[2],
                       FlakehubUrl(host, ref.segs[1], ref.segs[2],
                                   IF EndsWith(ref.segs[3], W_tar_gz) THEN ref.segs[3]
                                   ELSE ref.segs[3] \o W_tar_gz))
         ELSE IF Len(ref.segs) = 2
         THEN Inferred(ref.segs[2],
                       FlakehubUrl(host, ref.segs[1], ref.segs[2], W_star_tar_gz))
         ELSE InferErr("flakehub input did not match the expected format")
    ELSE IF ref.form = "hosted"
    THEN IF input_name # None THEN Inferred(input_name.value, ref.text)
         ELSE InferErr("cannot infer an input name")
    ELSE InferErr("url parse error")

\* add/mod.rs: the registry's answer to the one GET request: "ok" is a
\* success status with the project's name and download URL, "fail" any
\* other status, whose body becomes the error, and "transport" a request
\* that got no response at all.
RegistryResponses == {"ok", "fail", "transport"}

\* A request to the registry: the path segments pushed on api_addr.
Request(org, repo, version) == [org |-> org, repo |-> repo, version |-> version]

\* A request that was sent, with the answer it got.
Answered(request, response) ==
    [org |-> request.org, repo |-> request.repo, version |-> request.version,
     response |-> response]

\* A result with the requests that were sent to get it.
WithSent(r, reqs) ==
    [f \in DOMAIN r \cup {"sent"} |-> IF f = "sent" THEN reqs ELSE r[f]]

\* add/mod.rs:210-216: the error of a request that failed: the body of the
\* response, or the transport's own error when there is no response.
RegistryErr(response) ==
    IF response = "fail" THEN Err("response body", "Registry", 0, 0)
    ELSE Err("error sending request", "Transport", 0, 0)

\* A lookup that sends the request once more when it failed.
get_flakehub_repo_and_url_retrying(api_addr, org, repo, version, response) ==
    IF response = "ok"
    THEN WithSent(Inferred(repo, FlakehubUrl(api_addr, org, repo,
                                             (IF version = None THEN <<"*">>
                                              ELSE version.value) \o W_tar_gz)),
                  <<Answered(Request(org, repo, version), response)>>)
    ELSE WithSent([ok |-> FALSE, err |-> RegistryErr(response)],
                  <<Answered(Request(org, repo, version), response),
                    Answered(Request(org, repo, version), response)>>)

\* add/mod.rs:164-217
get_flakehub_repo_and_url(api_addr, org, repo, version, response) ==
    IF response = "ok"
    THEN WithSent(Inferred(repo, FlakehubUrl(api_addr, org, repo,
                                             (IF version = None THEN <<"*">>
                                              ELSE version.value) \o W_tar_gz)),
                  <<Answered(Request(org, repo, version), response)>>)
    ELSE WithSent([ok |-> FALSE, err |-> RegistryErr(response)],
                  <<Answered(Request(org, repo, version), response)>>)

\* An inference that takes the name of a URL without a host from its path,
\* whatever name was supplied.
mod_infer_name_from_path(api_addr, ref, input_name, response) ==
    IF ref.form = "hostless"
    THEN IF Len(ref.segs) >= 2 THEN WithSent(Inferred(ref.segs[2], ref.text), <<>>)
         ELSE WithSent(InferErr("cannot infer an input name"), <<>>)
    ELSE IF ref.form = "relative"
    THEN IF Len(ref.segs) \notin {2, 3}
         THEN WithSent(InferErr("flakehub input did not match the expected format"), <<>>)
         ELSE LET version == IF Len(ref.segs) = 3
                             THEN Some(StripV(StripSuffix(ref.segs[3], W_tar_gz)))
                             ELSE None
                  r == get_flakehub_repo_and_url(api_addr, ref.segs[1], ref.segs[2],
                                                 version, response)
              IN  IF ~r.ok THEN r
                  ELSE IF input_name # None
                  THEN WithSent(Inferred(input_name.value, r.url), r.sent)
                  ELSE r
    ELSE IF ref.form = "hosted"
    THEN IF input_name # None THEN WithSent(Inferred(input_name.value, ref.text), <<>>)
         ELSE WithSent(InferErr("cannot infer an input name"), <<>>)
    ELSE WithSent(InferErr("url parse error"), <<>>)

\* add/mod.rs: infer_flake_input_name_url
mod_infer_flake_input_name_url(api_addr, ref, input_name, response) ==
    IF ref.form = "hostless"
    THEN IF input_name # None THEN WithSent(Inferred(input_name.value, ref.text), <<>>)
         ELSE IF Len(ref.segs) >= 2 THEN WithSent(Inferred(ref.segs[2], ref.text), <<>>)
         ELSE WithSent(InferErr("cannot infer an input name"), <<>>)
    ELSE IF ref.form = "relative"
    THEN IF Len(ref.segs) \notin {2, 3}
         THEN WithSent(InferErr("flakehub input did not match the expected format"), <<>>)
         ELSE LET version == IF Len(ref.segs) = 3
                             THEN Some(StripV(StripSuffix(ref.segs[3], W_tar_gz)))
                             ELSE None
                  r == get_flakehub_repo_and_url(api_addr, ref.segs[1], ref.segs[2],
                                                 version, response)
              IN  IF ~r.ok THEN r
                  ELSE IF input_name # None
                  THEN WithSent(Inferred(input_name.value, r.url), r.sent)
                  ELSE r
    ELSE IF ref.form = "hosted"
    THEN IF input_name # None THEN WithSent(Inferred(input_name.value, ref.text), <<>>)
         ELSE WithSent(InferErr("cannot infer an input name"), <<>>)
    ELSE WithSent(InferErr("url parse error"), <<>>)

----------------------------------------------------------------------------
(* add/mod.rs: load_flake and the editor of add/flake.rs.                  *)

\* add/mod.rs:12-17
FALLBACK_FLAKE_CONTENTS ==
    <<"{", NEWLINE, " ", " ", "d", "e", "s", "c", "r", "i", "p", "t", "i",
    "o", "n", " ", "=", " ", "\"", "M", "y", " ", "n", "e", "w", " ", "f",
    "l", "a", "k", "e", ".", "\"", ";", NEWLINE, NEWLINE, " ", " ", "o",
    "u", "t", "p", "u", "t", "s", " ", "=", " ", "{", " ", ".", ".", ".",
    " ", "}", " ", "@", " ", "i", "n", "p", "u", "t", "s", ":", " ", "{", " ",
    "}", ";", NEWLINE, "}", NEWLINE>>

\* str::trim().is_empty()
IsBlank(contents) == \A i \in 1..Len(contents) : contents[i] \in {" ", NEWLINE}

\* A load that returns an empty attribute set as it was read.
LoadParsedAsRead(contents, parsed) ==
    [ok |-> TRUE, contents |-> contents, parsed |-> parsed]

\* add/mod.rs:88-94: a flake that parses to an empty attribute set is
\* replaced by the fallback.
LoadParsed(contents, parsed) ==
    IF parsed.kind = "Map" /\ parsed.bindings = <<>>
    THEN [ok |-> TRUE, contents |-> FALLBACK_FLAKE_CONTENTS,
          parsed |-> Parse(FALLBACK_FLAKE_CONTENTS)]
    ELSE [ok |-> TRUE, contents |-> contents, parsed |-> parsed]

\* io is how the read ends: "ok", or "denied" for an error other than
\* NotFound.  f is the file: whether it exists, and its contents.
load_flake(f, io) ==
    IF f.exists /\ io = "denied"
    THEN [ok |-> FALSE, err |-> Err("Failed to open", "", 0, 0)]
    ELSE IF ~f.exists \/ IsBlank(f.contents)
    THEN LoadParsed(FALLBACK_FLAKE_CONTENTS, Parse(FALLBACK_FLAKE_CONTENTS))
    ELSE LoadParsed(f.contents, Parse(f.contents))

\* add/flake.rs, upsert_flake_input: the edit of section 4.4 of the
\* specification, from the document to the new document or an error.
flake_upsert_flake_input(expr, flake_input_name, flake_input_value, flake_contents, input_attr_path) ==
    upsert_flake_input(expr, flake_input_name, flake_input_value, flake_contents,
                       flake_contents, input_attr_path)

----------------------------------------------------------------------------
(* The add command: AddSubcommand::execute of add.rs and of add/mod.rs,    *)
(* one step per await or fallible call, run again and again on the same    *)
(* flake.nix.                                                              *)

\* How many times the command may write flake.nix.
MaxWrites == 2

AddIdle ==
    /\ pc = "idle"
    /\ stage = "none"
    /\ started = None
    /\ args = None
    /\ inputBuf = <<>>
    /\ parsedExpr = None
    /\ outputBuf = <<>>
    /\ inputName = <<>>
    /\ inputUrl = <<>>
    /\ err = NoErr
    /\ edits = <<>>
    /\ firstRaw = None
    /\ requests = <<>>

Missing == [exists |-> FALSE, contents |-> <<>>]

\* No convert command runs, and there is no shell.nix and no default.nix.
ConvIdle ==
    /\ shellNix = Missing
    /\ defaultNix = Missing
    /\ compatName = None
    /\ git = None
    /\ wrote = <<>>
    /\ printed = <<>>

\* The files add can find: none, an empty one, a blank one, a document.
Files ==
    {[exists |-> TRUE, contents |-> d] : d \in Documents \cup {<<>>, <<" ", NEWLINE>>}}
        \cup {Missing}

AddInit ==
    /\ variant \in {"add.rs", "add/mod.rs"}
    /\ file \in Files
    /\ writes = 0
    /\ prev = None
    /\ AddIdle
    /\ ConvIdle
    /\ pbuf = <<>>
    /\ ppos = Position(1, 1)
    /\ pres = NotCalled
    /\ pspan = NotCalled

\* An execute that goes on to the write whatever the upsert returned.
AfterCallWritingAnyway(e, next) ==
    IF e = NoErr \/ next = "upserted" THEN next ELSE "failed"

\* The ? after a fallible call: execute goes on, or returns the error.

AfterCall(e, next) == IF e = NoErr THEN next ELSE "failed"

AttrPath(flake_input_name) == <<W_inputs, flake_input_name, W_url>>

AddStart ==
    /\ variant \in {"add.rs", "add/mod.rs"}
    /\ pc = "idle"
    /\ writes < MaxWrites
    /\ \E r \in References, n \in InputNames : args' = [ref |-> r, input_name |-> n]
    /\ started' = [file |-> file, writes |-> writes]
    /\ pc' = "started"
    /\ UNCHANGED <<stage, inputBuf, parsedExpr, outputBuf, inputName, inputUrl, err, edits, firstRaw>>
    /\ UNCHANGED <<netVars, posVars, diskVars, convVars>>

\* add.rs:37-39
AddRead ==
    /\ variant = "add.rs"
    /\ pc = "started"
    /\ stage' = "read"
    /\ IF file.exists
       THEN /\ inputBuf' = file.contents
            /\ outputBuf' = file.contents
            /\ parsedExpr' = Parse(file.contents)
            /\ err' = NoErr
       ELSE /\ err' = Err("No such file or directory", "", 0, 0)
            /\ UNCHANGED <<inputBuf, outputBuf, parsedExpr>>
    /\ pc' = AfterCall(err', "read")
    /\ UNCHANGED <<started, args, inputName, inputUrl, edits, firstRaw>>
    /\ UNCHANGED <<netVars, posVars, diskVars, convVars>>

\* add.rs:40-47
AddInfer ==
    /\ variant = "add.rs"
    /\ pc = "read"
    /\ stage' = "infer"
    /\ \E r \in {infer_flake_input_name_url(HostUrl, args.ref, args.input_name)} :
          IF r.ok
          THEN inputName' = r.name /\ inputUrl' = r.url /\ err' = NoErr
          ELSE err' = r.err /\ UNCHANGED <<inputName, inputUrl>>
    /\ pc' = AfterCall(err', "inferred")
    /\ UNCHANGED <<started, args, inputBuf, parsedExpr, outputBuf, edits, firstRaw>>
    /\ UNCHANGED <<netVars, posVars, diskVars, convVars>>

\* add.rs:49-56
AddUpsert ==
    /\ variant = "add.rs"
    /\ pc = "inferred"
    /\ stage' = "upsert"
    /\ \E r \in {upsert_flake_input(parsedExpr, inputName, inputUrl, inputBuf, outputBuf,
                                     AttrPath(inputName))} :
          /\ outputBuf' = r.output
          /\ err' = r.err
          /\ edits' = r.edits
          /\ firstRaw' = r.anchor
    /\ pc' = AfterCall(err', "upserted")
    /\ UNCHANGED <<started, args, inputBuf, parsedExpr, inputName, inputUrl>>
    /\ UNCHANGED <<netVars, posVars, diskVars, convVars>>

\* add.rs:58-60
AddWrite ==
    /\ variant = "add.rs"
    /\ pc = "upserted"
    /\ stage' = "write"
    /\ file' = [exists |-> TRUE, contents |-> outputBuf]
    /\ writes' = writes + 1
    /\ prev' = [name |-> inputName, url |-> inputUrl, contents |-> outputBuf]
    /\ pc' = "done"
    /\ UNCHANGED <<started, args, inputBuf, parsedExpr, outputBuf, inputName, inputUrl, err, edits, firstRaw>>
    /\ UNCHANGED <<netVars, posVars, variant, convVars>>

\* add/mod.rs:43
ModLoad ==
    /\ variant = "add/mod.rs"
    /\ pc = "started"
    /\ stage' = "read"
    /\ \E io \in {"ok", "denied"} :
          \E r \in {load_flake(file, io)} :
              IF r.ok
              THEN /\ inputBuf' = r.contents
                   /\ parsedExpr' = r.parsed
                   /\ err' = NoErr
              ELSE /\ err' = r.err
                   /\ UNCHANGED <<inputBuf, parsedExpr>>
    /\ pc' = AfterCall(err', "read")
    /\ UNCHANGED <<started, args, outputBuf, inputName, inputUrl, edits, firstRaw>>
    /\ UNCHANGED <<netVars, posVars, diskVars, convVars>>

\* add/mod.rs:45-52
ModInfer ==
    /\ variant = "add/mod.rs"
    /\ pc = "read"
    /\ stage' = "infer"
    /\ \E response \in RegistryResponses :
          \E r \in {mod_infer_flake_input_name_url(HostUrl, args.ref, args.input_name,
                                                  response)} :
              /\ requests' = requests \o r.sent
              /\ IF r.ok
                 THEN inputName' = r.name /\ inputUrl' = r.url /\ err' = NoErr
                 ELSE err' = r.err /\ UNCHANGED <<inputName, inputUrl>>
    /\ pc' = AfterCall(err', "inferred")
    /\ UNCHANGED <<started, args, inputBuf, parsedExpr, outputBuf, edits, firstRaw>>
    /\ UNCHANGED <<posVars, diskVars, convVars>>

\* add/mod.rs:54-60
ModUpsert ==
    /\ variant = "add/mod.rs"
    /\ pc = "inferred"
    /\ stage' = "upsert"
    /\ \E r \in {flake_upsert_flake_input(parsedExpr, inputName, inputUrl, inputBuf,
                                           AttrPath(inputName))} :
          /\ outputBuf' = IF r.err = NoErr THEN r.output ELSE outputBuf
          /\ err' = r.err
          /\ edits' = r.edits
          /\ firstRaw' = r.anchor
    /\ pc' = AfterCall(err', "upserted")
    /\ UNCHANGED <<started, args, inputBuf, parsedExpr, inputName, inputUrl>>
    /\ UNCHANGED <<netVars, posVars, diskVars, convVars>>

\* add/mod.rs:62-64
ModWrite ==
    /\ variant = "add/mod.rs"
    /\ pc = "upserted"
    /\ stage' = "write"
    /\ file' = [exists |-> TRUE, contents |-> outputBuf]
    /\ writes' = writes + 1
    /\ prev' = [name |-> inputName, url |-> inputUrl, contents |-> outputBuf]
    /\ pc' = "done"
    /\ UNCHANGED <<started, args, inputBuf, parsedExpr, outputBuf, inputName, inputUrl, err, edits, firstRaw>>
    /\ UNCHANGED <<netVars, posVars, variant, convVars>>

\* execute has returned: the process ends and its locals go.
AddExit ==
    /\ variant \in {"add.rs", "add/mod.rs"}
    /\ pc \in {"done", "failed"}
    /\ pc' = "idle"
    /\ stage' = "none"
    /\ started' = None
    /\ args' = None
    /\ inputBuf' = <<>>
    /\ parsedExpr' = None
    /\ outputBuf' = <<>>
    /\ inputName' = <<>>
    /\ inputUrl' = <<>>
    /\ err' = NoErr
    /\ edits' = <<>>
    /\ firstRaw' = None
    /\ requests' = <<>>
    /\ UNCHANGED <<posVars, diskVars, convVars>>

Init == AddInit

Next ==
    \/ AddStart
    \/ AddRead
    \/ AddInfer
    \/ AddUpsert
    \/ AddWrite
    \/ ModLoad
    \/ ModInfer
    \/ ModUpsert
    \/ ModWrite
    \/ AddExit

Spec == Init /\ [][Next]_vars

----------------------------------------------------------------------------
(* The conversion pass of convert.rs: convert_inputs_to_flakehub and the   *)
(* functions it calls.  url::Url::parse, semver::Version::parse and the    *)
(* regex are external libraries, given by what they do with the texts the  *)
(* documents hold.                                                         *)

\* github
W_github ==
    <<"g", "i", "t", "h", "u", "b">>

\* nixos
W_nixos ==
    <<"n", "i", "x", "o", "s">>

\* nixpkgs
W_nixpkgs ==
    <<"n", "i", "x", "p", "k", "g", "s">>

\* nixos-
W_nixos_dash ==
    <<"n", "i", "x", "o", "s", "-">>

\* nixpkgs-
W_nixpkgs_dash ==
    <<"n", "i", "x", "p", "k", "g", "s", "-">>

\* -small
W_small ==
    <<"-", "s", "m", "a", "l", "l">>

\* -darwin
W_darwin ==
    <<"-", "d", "a", "r", "w", "i", "n">>

\* nixpkgs-unstable
W_nixpkgs_unstable ==
    <<"n", "i", "x", "p", "k", "g", "s", "-", "u", "n", "s", "t", "a", "b",
    "l", "e">>

\* nixos-unstable
W_nixos_unstable ==
    <<"n", "i", "x", "o", "s", "-", "u", "n", "s", "t", "a", "b", "l", "e">>

\* 0.1.0
W_0_1_0 ==
    <<"0", ".", "1", ".", "0">>

\* convert.rs:129: github:edolstra/flake-compat
W_flake_compat_url ==
    <<"g", "i", "t", "h", "u", "b", ":", "e", "d", "o", "l", "s", "t", "r",
    "a", "/", "f", "l", "a", "k", "e", "-", "c", "o", "m", "p", "a", "t">>

\* The index of the first ch in s, 0 when there is none.
FirstIndex(s, ch) ==
    IF \A i \in 1..Len(s) : s[i] # ch THEN 0
    ELSE CHOOSE i \in 1..Len(s) : s[i] = ch /\ \A j \in 1..(i - 1) : s[j] # ch

\* str::split(ch)
RECURSIVE Split(_, _)

SplitAt(s, ch, i) ==
    IF i = 0 THEN <<s>>
    ELSE <<SubSeq(s, 1, i - 1)>> \o Split(SubSeq(s, i + 1, Len(s)), ch)

Split(s, ch) == SplitAt(s, ch, FirstIndex(s, ch))

\* str::trim
Trim(s) ==
    LET keep == {i \in 1..Len(s) : s[i] \notin {" ", NEWLINE}}
    IN  IF keep = {} THEN <<>>
        ELSE SubSeq(s, CHOOSE i \in keep : \A j \in keep : i <= j,
                    CHOOSE i \in keep : \A j \in keep : j <= i)

\* str::to_lowercase, on the capitals the documents hold.
LowerChar(c) ==
    CASE c = "N" -> "n"
      [] c = "O" -> "o"
      [] c = "S" -> "s"
      [] OTHER -> c

Lower(s) == [i \in 1..Len(s) |-> LowerChar(s[i])]

\* Whether the text w stands in s at index i.
HasAt(s, i, w) == i + Len(w) - 1 <= Len(s) /\ SubSeq(s, i, i + Len(w) - 1) = w

\* url::Url::parse of a text whose colon is at index c: a text without a
\* scheme does not parse (RelativeUrlWithoutBase); //... after the scheme
\* is a host.
ParsedUrl(text, c) ==
    IF c <= 1 THEN [ok |-> FALSE]
    ELSE [ok |-> TRUE,
          scheme |-> SubSeq(text, 1, c - 1),
          has_host |-> HasAt(text, c + 1, <<"/", "/">>) /\ Len(text) > c + 2,
          path |-> SubSeq(text, c + 1, Len(text))]

ParseUrl(text) == ParsedUrl(text, FirstIndex(text, ":"))

DigitSeq == <<"0", "1", "2", "3", "4", "5", "6", "7", "8", "9">>

DigitValue(c) == (CHOOSE n \in 1..10 : DigitSeq[n] = c) - 1

IsNumber(s) == s # <<>> /\ \A i \in 1..Len(s) : s[i] \in Digits

\* str::parse::<u64>
RECURSIVE ToNumber(_)
ToNumber(s) ==
    IF s = <<>> THEN 0
    ELSE 10 * ToNumber(SubSeq(s, 1, Len(s) - 1)) + DigitValue(s[Len(s)])

\* Whether the three parts are the numbers of a version.
IsVersionCore(p) ==
    /\ Len(p) = 3
    /\ \A i \in 1..3 : IsNumber(p[i]) /\ (Len(p[i]) = 1 \/ p[i][1] # "0")

\* semver::Version::parse(..).is_ok(), for versions without a pre-release
\* or build part.
IsSemver(s) == IsVersionCore(Split(s, "."))

\* convert.rs:11-13: where YY.MM starts when the pattern
\* (nixos|nixpkgs)-YY.MM matches the branch at index i, 0 when it does not.
ReleaseYearAt(branch, y) ==
    IF /\ y + 4 <= Len(branch)
       /\ branch[y] \in Digits /\ branch[y + 1] \in Digits
       /\ branch[y + 2] = "."
       /\ branch[y + 3] \in Digits /\ branch[y + 4] \in Digits
    THEN y
    ELSE 0

ReleaseAt(branch, i) ==
    IF HasAt(branch, i, W_nixos_dash) THEN ReleaseYearAt(branch, i + Len(W_nixos_dash))
    ELSE IF HasAt(branch, i, W_nixpkgs_dash)
    THEN ReleaseYearAt(branch, i + Len(W_nixpkgs_dash))
    ELSE 0

\* The captures of the match that starts at index i.
ReleaseCaptures(branch, y) ==
    [kind |-> "Some", year |-> SubSeq(branch, y, y + 1),
     month |-> SubSeq(branch, y + 3, y + 4)]

\* A pattern that is anchored to release- as well.
RELEASE_BRANCH_REGEX_release(branch) ==
    LET hits == {i \in 1..Len(branch) :
                    \/ ReleaseAt(branch, i) # 0
                    \/ /\ HasAt(branch, i, <<"r", "e", "l", "e", "a", "s", "e", "-">>)
                       /\ ReleaseYearAt(branch, i + 8) # 0}
    IN  IF hits = {} THEN None
        ELSE LET i == CHOOSE i \in hits : \A j \in hits : i <= j
             IN  ReleaseCaptures(branch, IF ReleaseAt(branch, i) # 0
                                         THEN ReleaseAt(branch, i) ELSE i + 8)

\* convert.rs:11-13 and 553: RELEASE_BRANCH_REGEX.captures(branch), the
\* leftmost match anywhere in the branch name.
RELEASE_BRANCH_REGEX(branch) ==
    LET hits == {i \in 1..Len(branch) : ReleaseAt(branch, i) # 0}
    IN  IF hits = {} THEN None
        ELSE ReleaseCaptures(branch,
                             ReleaseAt(branch, CHOOSE i \in hits : \A j \in hits : i <= j))

\* convert.rs:548-551
StripBranchSuffix(branch) ==
    IF EndsWith(branch, W_small) THEN SubSeq(branch, 1, Len(branch) - Len(W_small))
    ELSE IF EndsWith(branch, W_darwin)
    THEN SubSeq(branch, 1, Len(branch) - Len(W_darwin))
    ELSE branch

\* convert.rs:568-589: the version of a release branch, None when the
\* pattern did not match or the release is before 20.03.
ReleaseVersion(captures) ==
    IF captures = None THEN None
    ELSE IF ToNumber(captures.year) >= 20 /\ ToNumber(captures.month) >= 3
    THEN Some(<<"0", ".">> \o captures.year \o captures.month \o <<".", "0">>)
    ELSE None

\* convert.rs:553-596: the version a nixpkgs branch stands for.
BranchVersion(branch) ==
    IF branch \in {W_nixpkgs_unstable, W_nixos_unstable} THEN Some(W_0_1_0)
    ELSE ReleaseVersion(RELEASE_BRANCH_REGEX(branch))

\* What a conversion step returns: an error, or the new URL if there is
\* one, with the requests it sent.
Unconverted == [err |-> NoErr, url |-> None, sent |-> <<>>]

\* convert.rs:604-611: if let Ok(..) = lookup.await, else a warning.
IfLetOk(r) ==
    IF r.ok THEN [err |-> NoErr, url |-> Some(r.url), sent |-> r.sent]
    ELSE [err |-> NoErr, url |-> None, sent |-> r.sent]

\* convert.rs:534-541, 557-564, 580-588: lookup.await?
AwaitOrReturn(r) ==
    IF r.ok THEN [err |-> NoErr, url |-> Some(r.url), sent |-> r.sent]
    ELSE [err |-> r.err, url |-> None, sent |-> r.sent]

\* convert.rs:543-600: a third segment that is not a version.
ConvertBranch(org, project, version, api_addr, response) ==
    IF version = None THEN Unconverted
    ELSE AwaitOrReturn(get_flakehub_repo_and_url(api_addr, org, project, version,
                                                 response))

\* convert.rs:526-601
ConvertVersionOrBranch(org, project, version_or_branch, api_addr, response) ==
    IF IsSemver(StripV(version_or_branch))
    THEN AwaitOrReturn(get_flakehub_repo_and_url(api_addr, org, project,
                                                 Some(StripV(version_or_branch)),
                                                 response))
    ELSE IF Lower(org) = W_nixos /\ Lower(project) = W_nixpkgs
    THEN ConvertBranch(org, project, BranchVersion(StripBranchSuffix(version_or_branch)),
                       api_addr, response)
    ELSE Unconverted

\* convert.rs:512-524 and 602-612
ConvertSegments(segs, api_addr, response) ==
    IF Len(segs) = 3
    THEN ConvertVersionOrBranch(segs[1], segs[2], segs[3], api_addr, response)
    ELSE IF Len(segs) = 2
    THEN IfLetOk(get_flakehub_repo_and_url(api_addr, segs[1], segs[2], None, response))
    ELSE [err |-> Err("flakehub input did not match the expected format", "", 0, 0),
          url |-> None, sent |-> <<>>]

convert_github_input_to_flakehub(parsed_url, api_addr, response) ==
    ConvertSegments(Split(parsed_url.path, "/"), api_addr, response)

\* convert.rs:475-503
convert_input_to_flakehub(api_addr, parsed_url, response) ==
    IF parsed_url.has_host THEN Unconverted
    ELSE IF parsed_url.scheme = W_github
    THEN convert_github_input_to_flakehub(parsed_url, api_addr, response)
    ELSE Unconverted

\* convert.rs:398-423: the while loop over the path searched for.
RECURSIVE ValueMatch(_, _, _)
ValueMatch(search_attr_path, this_attr_path, most_recent_attr_matched) ==
    IF search_attr_path = <<>>
    THEN [search |-> search_attr_path, this |-> this_attr_path,
          matched |-> most_recent_attr_matched]
    ELSE IF this_attr_path = <<>>
    THEN [search |-> search_attr_path, this |-> this_attr_path, matched |-> FALSE]
    ELSE IF Head(search_attr_path) # Head(this_attr_path)
    THEN ValueMatch(Tail(search_attr_path), this_attr_path, FALSE)
    ELSE ValueMatch(Tail(search_attr_path), Tail(this_attr_path), TRUE)

\* convert.rs:450-459
StringValue(parts) ==
    IF parts = <<>> THEN None
    ELSE IF parts[1].kind = "Raw" THEN Some(Trim(parts[1].content))
    ELSE None

RECURSIVE find_input_value_by_path(_, _)
RECURSIVE FindValueIn(_, _, _, _)

\* convert.rs:434-436: the value found below a binding replaces the one
\* found before, and the loop goes on.
FindValueBelow(bindings, i, attr_path, r) ==
    IF r.err # NoErr THEN r
    ELSE FindValueIn(bindings, i + 1, attr_path, r.value)

FindValueAt(bindings, i, attr_path, found_value, m) ==
    IF m.matched \/ m.this = <<>>
    THEN FindValueBelow(bindings, i, attr_path,
                        find_input_value_by_path(bindings[i].to, m.search))
    ELSE FindValueIn(bindings, i + 1, attr_path, found_value)

\* convert.rs:381-448: the for loop over a Map's bindings, from binding i.
FindValueIn(bindings, i, attr_path, found_value) ==
    IF i > Len(bindings) THEN [err |-> NoErr, value |-> found_value]
    ELSE IF bindings[i].kind = "Inherit"
    THEN [err |-> InheritErr(bindings[i]), value |-> None]
    ELSE FindValueAt(bindings, i, attr_path, found_value,
                     ValueMatch(attr_path, ContentsOf(RawsOf(bindings[i].from)), FALSE))

find_input_value_by_path(expr, attr_path) ==
    IF expr.kind = "Map" THEN FindValueIn(expr.bindings, 1, attr_path, None)
    ELSE IF expr.kind = "String"
    THEN [err |-> NoErr, value |-> StringValue(expr.parts)]
    ELSE [err |-> UnsupportedErr(expr), value |-> None]

\* convert.rs:110-121: the first raw part of the key that is neither
\* inputs nor url, None when there is none.
InputNameOf(from) ==
    LET names == {i \in 1..Len(from) :
                     /\ from[i].kind = "Raw"
                     /\ Trim(from[i].content) \notin {W_inputs, W_url}}
    IN  IF names = {} THEN None
        ELSE Some(Trim(from[CHOOSE i \in names : \A j \in names : i <= j].content))

\* add/flake.rs, find_all_attrsets_by_path and collect_all_inputs: the
\* enumeration of section 4.2 of the specification under the root inputs.
\* The declared inputs in source order: a top-level binding whose key goes
\* on after inputs is one input, and the bindings of the attribute set of
\* inputs = { ... } are one input each.  An inherit on the way is an error,
\* and so is a document that is not an attribute set.
RECURSIVE InputsFrom(_, _, _)

InputsBelow(bindings, i, acc, inner) ==
    IF \E h \in 1..Len(inner) : inner[h].kind = "Inherit"
    THEN [err |-> InheritErr(inner[CHOOSE h \in 1..Len(inner) :
                                       /\ inner[h].kind = "Inherit"
                                       /\ \A g \in 1..(h - 1) : inner[g].kind # "Inherit"]),
          inputs |-> <<>>]
    ELSE InputsFrom(bindings, i + 1, acc \o inner)

InputsAt(bindings, i, acc, names) ==
    IF names = <<>> \/ Head(names) # W_inputs THEN InputsFrom(bindings, i + 1, acc)
    ELSE IF Len(names) = 1 /\ bindings[i].to.kind = "Map"
    THEN InputsBelow(bindings, i, acc, bindings[i].to.bindings)
    ELSE InputsFrom(bindings, i + 1, Append(acc, bindings[i]))

InputsFrom(bindings, i, acc) ==
    IF i > Len(bindings) THEN [err |-> NoErr, inputs |-> acc]
    ELSE IF bindings[i].kind = "Inherit"
    THEN [err |-> InheritErr(bindings[i]), inputs |-> <<>>]
    ELSE InputsAt(bindings, i, acc, ContentsOf(RawsOf(bindings[i].from)))

collect_all_inputs(expr) ==
    IF expr.kind = "Map" THEN InputsFrom(expr.bindings, 1, <<>>)
    ELSE [err |-> UnsupportedErr(expr), inputs |-> <<>>]

\* add/flake.rs, find_first_attrset_by_path: the matcher of section 4.2 of
\* the specification, prefix-aware.  The first binding whose accumulated key
\* begins with the path, as convert.rs:278-291 reads it (inputs.nixpkgs.url
\* found for the path inputs), the first occurrence taken and no sibling
\* tried after it; None when the path is not there.
RECURSIVE find_first_attrset_by_path(_, _)
RECURSIVE FirstAttrsetIn(_, _, _)

FirstAttrsetAt(bindings, i, attr_path, m) ==
    IF m.search = <<>> THEN [err |-> NoErr, attr |-> bindings[i]]
    ELSE IF m.this # <<>> THEN FirstAttrsetIn(bindings, i + 1, attr_path)
    ELSE find_first_attrset_by_path(bindings[i].to, m.search)

FirstAttrsetIn(bindings, i, attr_path) ==
    IF i > Len(bindings) THEN [err |-> NoErr, attr |-> None]
    ELSE IF bindings[i].kind = "Inherit"
    THEN [err |-> InheritErr(bindings[i]), attr |-> None]
    ELSE FirstAttrsetAt(bindings, i, attr_path,
                        MatchAttrPath(attr_path, ContentsOf(RawsOf(bindings[i].from))))

find_first_attrset_by_path(expr, attr_path) ==
    IF expr.kind = "Map" THEN FirstAttrsetIn(expr.bindings, 1, attr_path)
    ELSE [err |-> UnsupportedErr(expr), attr |-> None]

\* add/flake.rs, update_flake_input: contract 1 of section 4.3 of the
\* specification on the value of the binding found.  The spans are those
\* of the tree the binding comes from, the offsets are looked up in the
\* buffer that is edited, the only buffer the caller hands over
\* (convert.rs:156-161).
flake_update_flake_input(attr, flake_input_name, flake_input_value, flake_contents) ==
    IF attr.to.kind = "String"
    THEN replace_input_value(attr.to.parts, flake_input_value, flake_contents,
                             flake_contents)
    ELSE [err |-> UnsupportedErr(attr.to), output |-> flake_contents, replaced |-> FALSE]

\* The span of the value of a binding, None when it is not a string with a
\* first raw part.
ValueSpanOf(attr) ==
    IF attr.to.kind = "String" /\ attr.to.parts # <<>> /\ attr.to.parts[1].kind = "Raw"
    THEN attr.to.parts[1].span
    ELSE None

\* How many inputs a document holds at most: the registry answers one
\* request for each.
MaxInputs == 2

\* convert.rs:109-163: the for loop over all_inputs, from input k.  c holds
\* what the loop reads: the inputs, the tree, the registry's address and its
\* answers; acc what it has made so far: the error, the buffer, the name of
\* the flake-compat input, the requests sent and the edits made.
RECURSIVE ConvertFrom(_, _, _)

\* The ? after a fallible call of the loop: the function returns the error.
ReturnError(c, k, acc, e) == [acc EXCEPT !.err = e]

\* convert.rs:156-161
ConvertUpdated(c, k, acc, name, n, attr, u) ==
    IF u.err # NoErr THEN ReturnError(c, k, acc, u.err)
    ELSE ConvertFrom(c, k + 1,
                     [acc EXCEPT !.contents = u.output,
                                 !.edits = Append(@, [name |-> name, url |-> n.url.value,
                                                      span |-> ValueSpanOf(attr)])])

\* convert.rs:144-155
ConvertFound(c, k, acc, name, n, f) ==
    IF f.err # NoErr THEN ReturnError(c, k, acc, f.err)
    ELSE IF f.attr = None
    THEN ReturnError(c, k, acc, Err("there was no inputs.name.url attribute", "", 0, 0))
    ELSE ConvertUpdated(c, k, acc, name, n, f.attr,
                        flake_update_flake_input(f.attr, name, n.url.value, acc.contents))

\* convert.rs:138-143
ConvertResolved(c, k, acc, name, n) ==
    IF n.err # NoErr THEN ReturnError(c, k, [acc EXCEPT !.sent = @ \o n.sent], n.err)
    ELSE IF n.url = None THEN ConvertFrom(c, k + 1, [acc EXCEPT !.sent = @ \o n.sent])
    ELSE ConvertFound(c, k, [acc EXCEPT !.sent = @ \o n.sent], name, n,
                      find_first_attrset_by_path(c.expr, <<W_inputs, name, W_url>>))

\* convert.rs:136: url.parse::<url::Url>().ok()
ConvertParsed(c, k, acc, name, parsed_url) ==
    IF ~parsed_url.ok THEN ConvertFrom(c, k + 1, acc)
    ELSE ConvertResolved(c, k, acc, name,
                         convert_input_to_flakehub(c.api_addr, parsed_url, c.responses[k]))

\* convert.rs:126-136
ConvertValued(c, k, acc, name, v) ==
    IF v.err # NoErr THEN ReturnError(c, k, acc, v.err)
    ELSE IF v.value = None THEN ConvertFrom(c, k + 1, acc)
    ELSE IF v.value.value = W_flake_compat_url
    THEN ConvertFrom(c, k + 1, [acc EXCEPT !.compat = Some(name)])
    ELSE ConvertParsed(c, k, acc, name, ParseUrl(v.value.value))

\* convert.rs:110-126
ConvertNamed(c, k, acc, name) ==
    IF name = None THEN ConvertFrom(c, k + 1, acc)
    ELSE ConvertValued(c, k, acc, name.value,
                       find_input_value_by_path(c.inputs[k].to, <<W_url>>))

ConvertFrom(c, k, acc) ==
    IF k > Len(c.inputs) THEN acc
    ELSE ConvertNamed(c, k, acc, InputNameOf(c.inputs[k].from))

\* convert.rs:102-107
ConvertAll(expr, flake_contents, api_addr, responses, all) ==
    IF all.err # NoErr
    THEN [err |-> all.err, contents |-> flake_contents, compat |-> None, sent |-> <<>>,
          edits |-> <<>>]
    ELSE ConvertFrom([inputs |-> all.inputs, expr |-> expr, api_addr |-> api_addr,
                      responses |-> responses],
                     1,
                     [err |-> NoErr, contents |-> flake_contents, compat |-> None,
                      sent |-> <<>>, edits |-> <<>>])

\* convert.rs:95-166
convert_inputs_to_flakehub(expr, flake_contents, api_addr, responses) ==
    ConvertAll(expr, flake_contents, api_addr, responses, collect_all_inputs(expr))

\* outputs
W_outputs ==
    <<"o", "u", "t", "p", "u", "t", "s">>

\* convert.rs:15
NIXPKGS_IMPLICIT_INPUT_NAME == W_nixpkgs

\* What make_implicit_nixpkgs_explicit returns: the error if any, the
\* buffer, and the requests it sent to the registry.
Explicit(e, contents, sent) == [err |-> e, contents |-> contents, sent |-> sent]

\* add/flake.rs, insert_flake_input with InputsInsertionLocation::Top: the
\* insertion of sections 4.4 and 4.3 (contract 2) of the specification, in
\* front of the first top-level binding that has a raw key part.  The
\* anchor is that of the tree, the buffer the one handed over.
TopAnchor(expr) ==
    LET keyed == IF expr.kind # "Map" THEN {}
                 ELSE {i \in 1..Len(expr.bindings) :
                          /\ expr.bindings[i].kind = "KeyValue"
                          /\ RawsOf(expr.bindings[i].from) # <<>>}
    IN  IF keyed = {} THEN None
        ELSE RawsOf(expr.bindings[CHOOSE i \in keyed : \A j \in keyed : i <= j].from)[1]

flake_insert_flake_input(expr, flake_input_name, flake_input_value, flake_contents) ==
    IF TopAnchor(expr) = None
    THEN [err |-> Err("no binding to insert the input above", "", 0, 0),
          output |-> flake_contents]
    ELSE insert_flake_input(TopAnchor(expr),
                            FlakeInputText(flake_input_name, flake_input_value),
                            flake_contents, flake_contents)

\* A head that names the input whatever its arguments are.
HeadNamesAnyInput(head, input_name) == head.kind = "Destructured"

\* convert.rs:197-201: a destructured head one of whose arguments is the
\* input name.
HeadNamesInput(head, input_name) ==
    /\ head.kind = "Destructured"
    /\ \E i \in 1..Len(head.arguments) : head.arguments[i].identifier = input_name

\* convert.rs:211-217
ExplicitInserted(flake_contents, sent, i) ==
    Explicit(i.err, IF i.err = NoErr THEN i.output ELSE flake_contents, sent)

\* convert.rs:203-209: lookup.await?
ExplicitResolved(expr, flake_contents, r) ==
    IF ~r.ok THEN Explicit(r.err, flake_contents, r.sent)
    ELSE ExplicitInserted(flake_contents, r.sent,
                          flake_insert_flake_input(expr, NIXPKGS_IMPLICIT_INPUT_NAME,
                                                   r.url, flake_contents))

\* convert.rs:181-222
ExplicitChecked(expr, flake_contents, api_addr, response, outputs_attr, nixpkgs_input_attr) ==
    IF nixpkgs_input_attr.err # NoErr
    THEN Explicit(nixpkgs_input_attr.err, flake_contents, <<>>)
    ELSE IF nixpkgs_input_attr.attr # None THEN Explicit(NoErr, flake_contents, <<>>)
    ELSE IF /\ outputs_attr.attr # None
            /\ outputs_attr.attr.to.kind = "Function"
            /\ HeadNamesInput(outputs_attr.attr.to.head, NIXPKGS_IMPLICIT_INPUT_NAME)
    THEN ExplicitResolved(expr, flake_contents,
                          get_flakehub_repo_and_url(api_addr, W_nixos,
                                                    NIXPKGS_IMPLICIT_INPUT_NAME, None,
                                                    response))
    ELSE Explicit(NoErr, flake_contents, <<>>)

\* convert.rs:176-185
ExplicitOutputs(expr, flake_contents, api_addr, response, outputs_attr) ==
    IF outputs_attr.err # NoErr THEN Explicit(outputs_attr.err, flake_contents, <<>>)
    ELSE ExplicitChecked(expr, flake_contents, api_addr, response, outputs_attr,
                         find_first_attrset_by_path(expr,
                                                    <<W_inputs,
                                                      NIXPKGS_IMPLICIT_INPUT_NAME>>))

\* convert.rs:168-225: the registry answers the request with response.
make_implicit_nixpkgs_explicit(expr, flake_contents, api_addr, response) ==
    ExplicitOutputs(expr, flake_contents, api_addr, response,
                    find_first_attrset_by_path(expr, <<W_outputs>>))

\* edolstra
W_edolstra ==
    <<"e", "d", "o", "l", "s", "t", "r", "a">>

\* flake-compat
W_flake_compat ==
    <<"f", "l", "a", "k", "e", "-", "c", "o", "m", "p", "a", "t">>

\* What fixup_flake_compat_input returns: the error if any, the buffer, and
\* the requests it sent to the registry.
Fixed(e, contents, sent) == [err |-> e, contents |-> contents, sent |-> sent]

\* add/flake.rs, kv_to_span: the span of the key of a binding, from the
\* start of its first part to the end of its last, and the span of its
\* value.
kv_to_span(kv) ==
    [from_span |-> [start |-> kv.from[1].span.start,
                    end |-> kv.from[Len(kv.from)].span.end],
     to_span |-> [start |-> kv.to.start, end |-> kv.to.end]]

\* add/flake.rs, indentation_from_from_span: the slice of contract 2 of
\* section 4.3 of the specification, from the first column of the key's
\* line to the start of the key.
indentation_from_from_span(flake_contents, from_span) ==
    LET ind == span_to_start_end_offsets(flake_contents,
                                         [start |-> Position(from_span.start.line, 1),
                                          end |-> from_span.start])
    IN  IF ~ind.ok THEN [ok |-> FALSE, err |-> ind.err]
        ELSE [ok |-> TRUE, indentation |-> Slice(flake_contents, ind.start, ind.end)]

\* An insertion at the first column of the line.
InsertionColumnFirst(indentation) == 1

\* convert.rs:259-262: the column after the indentation.
InsertionColumn(indentation) == Len(indentation) + 1

\* convert.rs:278-295: the new binding, in the shape of the inputs it
\* stands among.
FixedInputText(inputs_attr, input_name, flake_input_value) ==
    IF Len(inputs_attr.from) = 1
    THEN input_name \o <<".">> \o W_url \o <<" ", "=", " ", "\"">> \o flake_input_value
             \o <<"\"", ";">>
    ELSE W_inputs \o <<".">> \o input_name \o <<".">> \o W_url \o <<" ", "=", " ", "\"">>
             \o flake_input_value \o <<"\"", ";">>

\* convert.rs:270-296: replace_range(start..=end, "") and insert_str.
FixupEdited(c, inputs_attr) ==
    IF inputs_attr.err # NoErr THEN Fixed(inputs_attr.err, c.contents, c.sent)
    ELSE IF inputs_attr.attr = None
    THEN Fixed(Err("inputs disappeared from flake.nix", "Panic", 0, 0), c.contents, c.sent)
    ELSE Fixed(NoErr,
               InsertStr(RemoveRange(c.contents, c.start, c.end + 1), c.offset,
                         FixedInputText(inputs_attr.attr, c.input_name, c.url)),
               c.sent)

\* convert.rs:263-276: the three lookups in the buffer, each with its ?.
FixupOffsets(c, offset, start, end) ==
    IF ~offset.ok THEN Fixed(offset.err, c.contents, c.sent)
    ELSE IF ~start.ok THEN Fixed(start.err, c.contents, c.sent)
    ELSE IF ~end.ok THEN Fixed(end.err, c.contents, c.sent)
    ELSE FixupEdited([contents |-> c.contents, input_name |-> c.input_name,
                      url |-> c.url, sent |-> c.sent, offset |-> offset.idx,
                      start |-> start.idx, end |-> end.idx],
                     find_first_attrset_by_path(c.parsed, <<W_inputs>>))

\* convert.rs:255-269
FixupIndented(c, spans, indentation) ==
    IF ~indentation.ok THEN Fixed(indentation.err, c.contents, c.sent)
    ELSE FixupOffsets(c,
                      position_to_offset(c.contents,
                                         Position(spans.from_span.start.line,
                                                  InsertionColumn(indentation.indentation))),
                      position_to_offset(c.contents, spans.from_span.start),
                      position_to_offset(c.contents, spans.to_span.end))

\* convert.rs:253-258
FixupSpans(c, spans) ==
    FixupIndented(c, spans, indentation_from_from_span(c.contents, spans.from_span))

\* convert.rs:245-253: lookup.await?
FixupResolved(flake_contents, input_name, parsed, input, r) ==
    IF ~r.ok THEN Fixed(r.err, flake_contents, r.sent)
    ELSE FixupSpans([contents |-> flake_contents, input_name |-> input_name,
                     parsed |-> parsed, url |-> r.url, sent |-> r.sent],
                    kv_to_span(input))

\* convert.rs:238-251: the ? and the expect after the search.
FixupFound(flake_contents, input_name, api_addr, response, parsed, input) ==
    IF input.err # NoErr THEN Fixed(input.err, flake_contents, <<>>)
    ELSE IF input.attr = None
    THEN Fixed(Err("input disappeared from flake.nix", "Panic", 0, 0), flake_contents, <<>>)
    ELSE FixupResolved(flake_contents, input_name, parsed, input.attr,
                       get_flakehub_repo_and_url(api_addr, W_edolstra, W_flake_compat,
                                                 None, response))

\* convert.rs:236-243: the search in the tree of the buffer.
FixupParsed(flake_contents, input_name, api_addr, response, parsed) ==
    FixupFound(flake_contents, input_name, api_addr, response, parsed,
               find_first_attrset_by_path(parsed, <<W_inputs, input_name>>))

\* convert.rs:228-298: the buffer is parsed again, the registry answers the
\* request with response.
fixup_flake_compat_input(flake_contents, input_name, api_addr, response) ==
    FixupParsed(flake_contents, input_name, api_addr, response, Parse(flake_contents))

\* An execute that fixes the flake-compat input only in a buffer that
\* differs from the file.
AfterNixpkgsIfModified(flake_compat_input_name) ==
    IF flake_compat_input_name # None /\ outputBuf' # inputBuf THEN "compat" ELSE "finish"

\* convert.rs:64: if let Some(flake_compat_input_name)
AfterNixpkgs(flake_compat_input_name) ==
    IF flake_compat_input_name # None THEN "compat" ELSE "finish"

----------------------------------------------------------------------------
(* The convert command: ConvertSubcommand::execute of convert.rs, one step *)
(* per await or fallible call.  shell.nix and default.nix are texts in     *)
(* pieces, each piece a run of characters.                                 *)

\* convert.rs:17
SHELL_NIX == "shell.nix"

\* convert.rs:18
DEFAULT_NIX == "default.nix"

FLAKE_NIX == "flake.nix"

\* convert.rs:19
FLAKE_COMPAT_MARKER == "https://github.com/edolstra/flake-compat/archive"

\* convert.rs:21-30: the marker is part of the prefix.
FLAKE_COMPAT_CONTENTS_PREFIX ==
    <<"(import ( let lock = ...; in fetchTarball { url = lock.nodes.flake-compat.locked.url or \"",
      FLAKE_COMPAT_MARKER,
      "/${lock.nodes.flake-compat.locked.rev}.tar.gz\"; sha256 = ...; } ) { src = ./.; } )">>

\* str::contains on a text in pieces
Contains(contents, piece) == \E i \in 1..Len(contents) : contents[i] = piece

\* A shell.nix or default.nix the command can find: none, one that fetches
\* the unpinned flake-compat, one that does not mention it.
CompanionFiles ==
    {Missing,
     [exists |-> TRUE,
      contents |-> <<"(import (fetchTarball \"", FLAKE_COMPAT_MARKER,
                     "/master.tar.gz\") { src = ./.; })">>],
     [exists |-> TRUE, contents |-> <<"{ pkgs ? import <nixpkgs> { } }: pkgs.hello">>]}

\* inputs.x.url = "github:a/x";
B_x_github ==
    <<"i", "n", "p", "u", "t", "s", ".", "x", ".", "u", "r", "l", " ", "=",
    " ", "\"", "g", "i", "t", "h", "u", "b", ":", "a", "/", "x", "\"", ";">>

\* inputs.y.url = "github:a/y";
B_y_github ==
    <<"i", "n", "p", "u", "t", "s", ".", "y", ".", "u", "r", "l", " ", "=",
    " ", "\"", "g", "i", "t", "h", "u", "b", ":", "a", "/", "y", "\"", ";">>

\* inputs.x.url = "github:a/x/v1.2.3";
B_x_github_version ==
    <<"i", "n", "p", "u", "t", "s", ".", "x", ".", "u", "r", "l", " ", "=",
    " ", "\"", "g", "i", "t", "h", "u", "b", ":", "a", "/", "x", "/", "v",
    "1", ".", "2", ".", "3", "\"", ";">>

\* inputs.x.url = "github:a/x/main";
B_x_github_branch ==
    <<"i", "n", "p", "u", "t", "s", ".", "x", ".", "u", "r", "l", " ", "=",
    " ", "\"", "g", "i", "t", "h", "u", "b", ":", "a", "/", "x", "/", "m",
    "a", "i", "n", "\"", ";">>

\* inputs.x.url = "path:./x";
B_x_path ==
    <<"i", "n", "p", "u", "t", "s", ".", "x", ".", "u", "r", "l", " ", "=",
    " ", "\"", "p", "a", "t", "h", ":", ".", "/", "x", "\"", ";">>

\* inputs.x.url = "https://github.com/a/x";
B_x_https ==
    <<"i", "n", "p", "u", "t", "s", ".", "x", ".", "u", "r", "l", " ", "=",
    " ", "\"", "h", "t", "t", "p", "s", ":", "/", "/", "g", "i", "t", "h",
    "u", "b", ".", "c", "o", "m", "/", "a", "/", "x", "\"", ";">>

\* inputs.x.url = "github:NixOS/nixpkgs/nixpkgs-unstable";
B_nixpkgs_unstable ==
    <<"i", "n", "p", "u", "t", "s", ".", "x", ".", "u", "r", "l", " ", "=",
    " ", "\"", "g", "i", "t", "h", "u", "b", ":", "N", "i", "x", "O", "S",
    "/", "n", "i", "x", "p", "k", "g", "s", "/", "n", "i", "x", "p", "k",
    "g", "s", "-", "u", "n", "s", "t", "a", "b", "l", "e", "\"", ";">>

\* inputs.x.url = "github:NixOS/nixpkgs/nixos-unstable-small";
B_nixos_unstable_small ==
    <<"i", "n", "p", "u", "t", "s", ".", "x", ".", "u", "r", "l", " ", "=",
    " ", "\"", "g", "i", "t", "h", "u", "b", ":", "N", "i", "x", "O", "S",
    "/", "n", "i", "x", "p", "k", "g", "s", "/", "n", "i", "x", "o", "s",
    "-", "u", "n", "s", "t", "a", "b", "l", "e", "-", "s", "m", "a", "l",
    "l", "\"", ";">>

\* inputs.x.url = "github:NixOS/nixpkgs/nixos-23.05";
B_nixos_23_05 ==
    <<"i", "n", "p", "u", "t", "s", ".", "x", ".", "u", "r", "l", " ", "=",
    " ", "\"", "g", "i", "t", "h", "u", "b", ":", "N", "i", "x", "O", "S",
    "/", "n", "i", "x", "p", "k", "g", "s", "/", "n", "i", "x", "o", "s",
    "-", "2", "3", ".", "0", "5", "\"", ";">>

\* inputs.x.url = "github:NixOS/nixpkgs/nixpkgs-23.05-darwin";
B_nixpkgs_23_05_darwin ==
    <<"i", "n", "p", "u", "t", "s", ".", "x", ".", "u", "r", "l", " ", "=",
    " ", "\"", "g", "i", "t", "h", "u", "b", ":", "N", "i", "x", "O", "S",
    "/", "n", "i", "x", "p", "k", "g", "s", "/", "n", "i", "x", "p", "k",
    "g", "s", "-", "2", "3", ".", "0", "5", "-", "d", "a", "r", "w", "i",
    "n", "\"", ";">>

\* inputs.x.url = "github:NixOS/nixpkgs/nixos-19.09";
B_nixos_19_09 ==
    <<"i", "n", "p", "u", "t", "s", ".", "x", ".", "u", "r", "l", " ", "=",
    " ", "\"", "g", "i", "t", "h", "u", "b", ":", "N", "i", "x", "O", "S",
    "/", "n", "i", "x", "p", "k", "g", "s", "/", "n", "i", "x", "o", "s",
    "-", "1", "9", ".", "0", "9", "\"", ";">>

\* inputs.x.url = "github:NixOS/nixpkgs/release-23.05-small";
B_release_23_05_small ==
    <<"i", "n", "p", "u", "t", "s", ".", "x", ".", "u", "r", "l", " ", "=",
    " ", "\"", "g", "i", "t", "h", "u", "b", ":", "N", "i", "x", "O", "S",
    "/", "n", "i", "x", "p", "k", "g", "s", "/", "r", "e", "l", "e", "a",
    "s", "e", "-", "2", "3", ".", "0", "5", "-", "s", "m", "a", "l", "l",
    "\"", ";">>

\* inputs.x.url = "github:edolstra/flake-compat";
B_x_flake_compat ==
    <<"i", "n", "p", "u", "t", "s", ".", "x", ".", "u", "r", "l", " ", "=",
    " ", "\"", "g", "i", "t", "h", "u", "b", ":", "e", "d", "o", "l", "s",
    "t", "r", "a", "/", "f", "l", "a", "k", "e", "-", "c", "o", "m", "p",
    "a", "t", "\"", ";">>

\* inputs.x = { inherit z; };
B_x_inherit ==
    <<"i", "n", "p", "u", "t", "s", ".", "x", " ", "=", " ", "{", " ", "i",
    "n", "h", "e", "r", "i", "t", " ", "z", ";", " ", "}", ";">>

\* outputs = { nixpkgs }: { };
B_outputs_nixpkgs ==
    <<"o", "u", "t", "p", "u", "t", "s", " ", "=", " ", "{", " ", "n", "i",
    "x", "p", "k", "g", "s", " ", "}", ":", " ", "{", " ", "}", ";">>

\* outputs = { };
B_outputs_set ==
    <<"o", "u", "t", "p", "u", "t", "s", " ", "=", " ", "{", " ", "}", ";">>

\* inputs.nixpkgs.url = "old";
B_nixpkgs_old ==
    <<"i", "n", "p", "u", "t", "s", ".", "n", "i", "x", "p", "k", "g", "s",
    ".", "u", "r", "l", " ", "=", " ", "\"", "o", "l", "d", "\"", ";">>

\* inputs = { x.url = "github:edolstra/flake-compat"; };
B_inputs_flake_compat ==
    <<"i", "n", "p", "u", "t", "s", " ", "=", " ", "{", " ", "x", ".", "u",
    "r", "l", " ", "=", " ", "\"", "g", "i", "t", "h", "u", "b", ":", "e",
    "d", "o", "l", "s", "t", "r", "a", "/", "f", "l", "a", "k", "e", "-",
    "c", "o", "m", "p", "a", "t", "\"", ";", " ", "}", ";">>

\* The bindings of the documents the convert command finds.
ConvBindingLists ==
    {<<B_x_url>>,
     <<B_description, B_outputs>>,
     <<B_inputs_empty, B_outputs>>,
     <<B_x_github>>,
     <<B_x_github_version>>,
     <<B_x_github_branch>>,
     <<B_x_path>>,
     <<B_x_https>>,
     <<B_nixpkgs_unstable>>,
     <<B_nixos_unstable_small>>,
     <<B_nixos_23_05>>,
     <<B_nixpkgs_23_05_darwin>>,
     <<B_nixos_19_09>>,
     <<B_release_23_05_small>>,
     <<B_x_flake_compat>>,
     <<B_x_flake_compat, B_y_github>>,
     <<B_x_url_int, B_y_github>>,
     <<B_x_inherit, B_y_github>>,
     <<B_outputs_nixpkgs>>,
     <<B_outputs_set>>,
     <<B_nixpkgs_old, B_outputs_nixpkgs>>,
     <<B_x_github, B_outputs_nixpkgs>>,
     <<B_x_flake_compat, B_outputs_nixpkgs>>,
     <<B_y_github, B_x_flake_compat>>,
     <<B_inputs_flake_compat>>}

\* Two inputs that convert, in every layout: on a line each, and both on
\* one line.
ConvDocuments ==
    {Document("indented", bs) : bs \in ConvBindingLists}
        \cup {Document(l, <<B_x_github, B_y_github>>) : l \in Layouts}

ConvFiles ==
    {[exists |-> TRUE, contents |-> d] : d \in ConvDocuments \cup {<<" ", NEWLINE>>}}
        \cup {Missing}

ConvInit ==
    /\ variant = "convert.rs"
    /\ file \in ConvFiles
    /\ writes = 0
    /\ prev = None
    /\ AddIdle
    /\ shellNix \in CompanionFiles
    /\ defaultNix \in CompanionFiles
    /\ compatName = None
    /\ git = None
    /\ wrote = <<>>
    /\ printed = <<>>
    /\ pbuf = <<>>
    /\ ppos = Position(1, 1)
    /\ pres = NotCalled
    /\ pspan = NotCalled

\* A command that updates shell.nix and default.nix with the dry flag too.
CompatFilesAlways(dry_run) == IF dry_run THEN "git" ELSE "git"

\* convert.rs:69-75: where execute goes after fixup_flake_compat_input.
AfterCompatInput(dry_run) == IF ~dry_run THEN "git" ELSE "finish"

ConvStart ==
    /\ variant = "convert.rs"
    /\ pc = "idle"
    /\ \E dry_run \in BOOLEAN : args' = [dry_run |-> dry_run]
    /\ started' = [file |-> file, shellNix |-> shellNix, defaultNix |-> defaultNix]
    /\ pc' = "started"
    /\ UNCHANGED <<stage, inputBuf, parsedExpr, outputBuf, inputName, inputUrl, err, edits,
                   firstRaw>>
    /\ UNCHANGED <<netVars, posVars, diskVars, convVars>>

\* convert.rs:50-57
ConvLoad ==
    /\ variant = "convert.rs"
    /\ pc = "started"
    /\ stage' = "load"
    /\ \E io \in {"ok", "denied"} :
          \E r \in {load_flake(file, io)} :
              IF ~file.exists
              THEN /\ err' = Err("the flake did not exist", "", 0, 0)
                   /\ UNCHANGED <<inputBuf, parsedExpr, outputBuf>>
              ELSE IF r.ok
              THEN /\ inputBuf' = r.contents
                   /\ parsedExpr' = r.parsed
                   /\ outputBuf' = r.contents
                   /\ err' = NoErr
              ELSE /\ err' = r.err
                   /\ UNCHANGED <<inputBuf, parsedExpr, outputBuf>>
    /\ pc' = AfterCall(err', "loaded")
    /\ UNCHANGED <<started, args, inputName, inputUrl, edits, firstRaw>>
    /\ UNCHANGED <<netVars, posVars, diskVars, convVars>>

\* convert.rs:58-60: convert_inputs_to_flakehub returns an error, or the new
\* text and the name of the flake-compat input if it met one.  The registry
\* answers the request for input k with responses[k].
ConvInputs ==
    /\ variant = "convert.rs"
    /\ pc = "loaded"
    /\ stage' = "inputs"
    /\ \E responses \in [1..MaxInputs -> RegistryResponses] :
          \E r \in {convert_inputs_to_flakehub(parsedExpr, inputBuf, HostUrl, responses)} :
              /\ err' = r.err
              /\ requests' = requests \o r.sent
              /\ edits' = r.edits
              /\ IF r.err = NoErr
                 THEN outputBuf' = r.contents /\ compatName' = r.compat
                 ELSE UNCHANGED <<outputBuf, compatName>>
    /\ pc' = AfterCall(err', "converted")
    /\ UNCHANGED <<started, args, inputBuf, parsedExpr, inputName, inputUrl, firstRaw>>
    /\ UNCHANGED <<posVars, diskVars, shellNix, defaultNix, git, wrote, printed>>

\* convert.rs:61-64: make_implicit_nixpkgs_explicit on the tree of the file
\* and the buffer the conversion of the inputs returned, and the branch on
\* the flake-compat input name.
ConvNixpkgs ==
    /\ variant = "convert.rs"
    /\ pc = "converted"
    /\ stage' = "nixpkgs"
    /\ \E response \in RegistryResponses :
          \E r \in {make_implicit_nixpkgs_explicit(parsedExpr, outputBuf, HostUrl, response)} :
              /\ err' = r.err
              /\ requests' = requests \o r.sent
              /\ outputBuf' = r.contents
    /\ pc' = AfterCall(err', AfterNixpkgs(compatName))
    /\ UNCHANGED <<started, args, inputBuf, parsedExpr, inputName, inputUrl, edits, firstRaw>>
    /\ UNCHANGED <<posVars, diskVars, convVars>>

\* convert.rs:65-75: fixup_flake_compat_input on the buffer the step before
\* returned, and the branch on dry_run.
ConvCompatInput ==
    /\ variant = "convert.rs"
    /\ pc = "compat"
    /\ stage' = "compat"
    /\ \E response \in RegistryResponses :
          \E r \in {fixup_flake_compat_input(outputBuf, compatName.value, HostUrl, response)} :
              /\ err' = r.err
              /\ requests' = requests \o r.sent
              /\ outputBuf' = r.contents
    /\ pc' = AfterCall(err', AfterCompatInput(args.dry_run))
    /\ UNCHANGED <<started, args, inputBuf, parsedExpr, inputName, inputUrl, edits, firstRaw>>
    /\ UNCHANGED <<posVars, diskVars, convVars>>

\* The paths git can print for the working tree, a path a text in pieces:
\* shell.nix and default.nix of the directory, and a file of another name.
WorkingTreePaths == {<<SHELL_NIX>>, <<DEFAULT_NIX>>, <<"flake.lock">>}

\* convert.rs:316-317: the arguments of the second git command, each with
\* the blank that ends it.
LS_FILES_ARGS == <<"ls-files ", "--modified ", "--full-name">>

\* What git prints on its standard output in a repository whose working
\* tree has the modified paths: a line for each of them when it is asked
\* for ls-files --modified, and nothing for a subcommand it does not know,
\* which it names on its standard error.
GitStdout(command_args, modified) ==
    IF command_args[1] = "ls-files" /\ command_args[2] = "--modified" THEN modified
    ELSE {}

\* convert.rs:324-331
NixFileClean(output, name) == ~\E line \in output : Contains(line, name)

\* convert.rs:306-331: the two git commands of fixup_flake_compat_nix_files.
\* modified is what the working tree holds that is not committed.
ConvGit ==
    /\ variant = "convert.rs"
    /\ pc = "git"
    /\ stage' = "git"
    /\ \/ /\ err' = Err("git", "", 0, 0)
          /\ UNCHANGED git
       \/ /\ err' = NoErr
          /\ \E repo \in BOOLEAN, modified \in SUBSET WorkingTreePaths :
                \E output \in {IF repo THEN GitStdout(LS_FILES_ARGS, modified) ELSE {}} :
                    git' = [is_a_git_repo |-> repo,
                            modified |-> IF repo THEN modified ELSE {},
                            shell_nix_clean |-> NixFileClean(output, SHELL_NIX),
                            default_nix_clean |-> NixFileClean(output, DEFAULT_NIX)]
    /\ pc' = AfterCall(err', "shell")
    /\ UNCHANGED <<started, args, inputBuf, parsedExpr, outputBuf, inputName, inputUrl, edits,
                   firstRaw>>
    /\ UNCHANGED <<netVars, posVars, diskVars, shellNix, defaultNix, compatName, wrote, printed>>

\* convert.rs:335-348
ConvShellNix ==
    /\ variant = "convert.rs"
    /\ pc = "shell"
    /\ stage' = "shell"
    /\ \E io \in {"ok", "denied"} :
          IF ~shellNix.exists THEN err' = NoErr /\ UNCHANGED <<shellNix, wrote>>
          ELSE IF io = "denied"
          THEN err' = Err("shell.nix", "", 0, 0) /\ UNCHANGED <<shellNix, wrote>>
          ELSE IF /\ Contains(shellNix.contents, FLAKE_COMPAT_MARKER)
                  /\ ~(~git.shell_nix_clean \/ ~git.is_a_git_repo)
          THEN /\ shellNix' = [exists |-> TRUE,
                               contents |-> FLAKE_COMPAT_CONTENTS_PREFIX \o <<".shellNix">>]
               /\ wrote' = Append(wrote, SHELL_NIX)
               /\ err' = NoErr
          ELSE err' = NoErr /\ UNCHANGED <<shellNix, wrote>>
    /\ pc' = AfterCall(err', "default")
    /\ UNCHANGED <<started, args, inputBuf, parsedExpr, outputBuf, inputName, inputUrl, edits,
                   firstRaw>>
    /\ UNCHANGED <<netVars, posVars, diskVars, defaultNix, compatName, git, printed>>

\* convert.rs:350-365
ConvDefaultNix ==
    /\ variant = "convert.rs"
    /\ pc = "default"
    /\ stage' = "default"
    /\ \E io \in {"ok", "denied"} :
          IF ~defaultNix.exists THEN err' = NoErr /\ UNCHANGED <<defaultNix, wrote>>
          ELSE IF io = "denied"
          THEN err' = Err("default.nix", "", 0, 0) /\ UNCHANGED <<defaultNix, wrote>>
          ELSE IF /\ Contains(defaultNix.contents, FLAKE_COMPAT_MARKER)
                  /\ ~(~git.default_nix_clean \/ ~git.is_a_git_repo)
          THEN /\ defaultNix' = [exists |-> TRUE,
                                 contents |-> FLAKE_COMPAT_CONTENTS_PREFIX \o <<".defaultNix">>]
               /\ wrote' = Append(wrote, DEFAULT_NIX)
               /\ err' = NoErr
          ELSE err' = NoErr /\ UNCHANGED <<defaultNix, wrote>>
    /\ pc' = AfterCall(err', "finish")
    /\ UNCHANGED <<started, args, inputBuf, parsedExpr, outputBuf, inputName, inputUrl, edits,
                   firstRaw>>
    /\ UNCHANGED <<netVars, posVars, diskVars, shellNix, compatName, git, printed>>

\* convert.rs:82-89
ConvFinish ==
    /\ variant = "convert.rs"
    /\ pc = "finish"
    /\ stage' = "finish"
    /\ \E io \in {"ok", "denied"} :
          IF args.dry_run
          THEN /\ printed' = Append(printed, outputBuf)
               /\ err' = NoErr
               /\ UNCHANGED <<file, wrote>>
          ELSE IF io = "denied"
          THEN /\ err' = Err("flake.nix", "", 0, 0)
               /\ UNCHANGED <<file, wrote, printed>>
          ELSE /\ file' = [exists |-> TRUE, contents |-> outputBuf]
               /\ wrote' = Append(wrote, FLAKE_NIX)
               /\ err' = NoErr
               /\ UNCHANGED printed
    /\ pc' = AfterCall(err', "done")
    /\ UNCHANGED <<started, args, inputBuf, parsedExpr, outputBuf, inputName, inputUrl, edits,
                   firstRaw>>
    /\ UNCHANGED <<netVars, posVars, variant, writes, prev, shellNix, defaultNix, compatName, git>>

\* execute has returned: the process ends and its locals go.
ConvExit ==
    /\ variant = "convert.rs"
    /\ pc \in {"done", "failed"}
    /\ pc' = "idle"
    /\ stage' = "none"
    /\ started' = None
    /\ args' = None
    /\ inputBuf' = <<>>
    /\ parsedExpr' = None
    /\ outputBuf' = <<>>
    /\ err' = NoErr
    /\ compatName' = None
    /\ git' = None
    /\ wrote' = <<>>
    /\ printed' = <<>>
    /\ requests' = <<>>
    /\ edits' = <<>>
    /\ UNCHANGED <<inputName, inputUrl, firstRaw>>
    /\ UNCHANGED <<posVars, diskVars, shellNix, defaultNix>>

ConvNext ==
    \/ ConvStart
    \/ ConvLoad
    \/ ConvInputs
    \/ ConvNixpkgs
    \/ ConvCompatInput
    \/ ConvGit
    \/ ConvShellNix
    \/ ConvDefaultNix
    \/ ConvFinish
    \/ ConvExit

SpecConvert == ConvInit /\ [][ConvNext]_vars

\* The three commands together: add of add.rs, add of add/mod.rs and
\* convert, each on its own flake.nix.
CommandsInit == AddInit \/ ConvInit

CommandsNext == Next \/ ConvNext

SpecCommands == CommandsInit /\ [][CommandsNext]_vars

----------------------------------------------------------------------------
(* The position-index specification: every buffer over a two-letter        *)
(* alphabet up to MaxBufLen, every position of the grid.                   *)

PosAlphabet == {"a", NEWLINE}

PosBuffers == UNION {[1..n -> PosAlphabet] : n \in 0..MaxBufLen}

PosGrid == {Position(l, c) : l \in 1..MaxLine, c \in 1..MaxColumn}

PosInit ==
    /\ pbuf \in PosBuffers
    /\ ppos \in PosGrid
    /\ pres = NotCalled
    /\ pspan = NotCalled
    /\ AddIdle
    /\ ConvIdle
    /\ variant = "add.rs"
    /\ file = Missing
    /\ writes = 0
    /\ prev = None

PosLookup ==
    /\ pres = NotCalled
    /\ pres' = position_to_offset(pbuf, ppos)
    /\ UNCHANGED <<pbuf, ppos, pspan, diskVars, runVars, convVars, netVars>>

\* span_to_start_end_offsets on the span from the requested position to
\* any later position of the grid.
PosSpan ==
    /\ pspan = NotCalled
    /\ \E e \in PosGrid :
          /\ \/ e.line > ppos.line
             \/ e.line = ppos.line /\ e.column >= ppos.column
          /\ pspan' = [span |-> [start |-> ppos, end |-> e],
                       res |-> span_to_start_end_offsets(pbuf, [start |-> ppos, end |-> e])]
    /\ UNCHANGED <<pbuf, ppos, pres, diskVars, runVars, convVars, netVars>>

PosNext == PosLookup \/ PosSpan

SpecPos == PosInit /\ [][PosNext]_vars

----------------------------------------------------------------------------
(* Claims about the position index (checked under SpecPos). *)

\* The position the scan of C6 gives the character at offset k: (1, 1) for
\* the first character, (line + 1, 1) after a newline, column + 1 after any
\* other character.
RECURSIVE ScannedPosition(_, _)
ScannedPosition(buf, k) ==
    IF k = 0 THEN Position(1, 1)
    ELSE LET p == ScannedPosition(buf, k - 1)
         IN  IF buf[k] = NEWLINE THEN Position(p.line + 1, 1)
             ELSE Position(p.line, p.column + 1)

OffsetsAt(buf, position) ==
    {k \in 0..(Len(buf) - 1) : ScannedPosition(buf, k) = position}

\* C6: position_to_offset returns the offset of the first character whose
\* scanned (line, column) equals the requested position, and the
\* position-not-found error, never an offset, when no character of the
\* buffer has that position.
C6_FirstMatchOrNotFound ==
    pres # NotCalled =>
        IF OffsetsAt(pbuf, ppos) # {}
        THEN /\ pres.ok
             /\ pres.idx \in OffsetsAt(pbuf, ppos)
             /\ \A k \in OffsetsAt(pbuf, ppos) : pres.idx <= k
        ELSE /\ ~pres.ok
             /\ pres.err = PosErr(ppos)

\* C6's case: a position on the second line is found behind a line break.
C6_Witness ==
    /\ pres # NotCalled
    /\ pres.ok
    /\ ppos.line = 2
    /\ pres.idx >= 2
    /\ pbuf[pres.idx] = NEWLINE

\* Converting an offset back to (line, column) by counting the newlines
\* before it.
OffsetToPosition(buf, k) ==
    LET breaks == {j \in 1..k : buf[j] = NEWLINE}
        last == IF breaks = {} THEN 0
                ELSE CHOOSE j \in breaks : \A i \in breaks : i <= j
    IN  Position(1 + Cardinality(breaks), k - last + 1)

\* C7: for every position of a character of the buffer, position_to_offset
\* succeeds and converting its offset back by counting newlines gives the
\* position again.
C7_RoundTrip ==
    (pres # NotCalled
      /\ \E k \in 0..(Len(pbuf) - 1) : OffsetToPosition(pbuf, k) = ppos)
    => /\ pres.ok
       /\ OffsetToPosition(pbuf, pres.idx) = ppos

\* C7's case: the round trip of a position past the first column of a
\* later line.
C7_Witness ==
    /\ pres # NotCalled
    /\ pres.ok
    /\ ppos.line >= 2
    /\ ppos.column >= 2
    /\ OffsetToPosition(pbuf, pres.idx) = ppos

\* The position just after the last character of the buffer.
PastTheEnd(buf) == OffsetToPosition(buf, Len(buf))

\* The position is the one of no character of the buffer.
Unresolvable(buf, position) == OffsetsAt(buf, position) = {}

\* C25: position_to_offset never returns an offset equal to or greater
\* than the length of the buffer, so the position just after the last
\* character is not resolved: span_to_start_end_offsets fails with the
\* position-not-found error for every span whose end is that position, and
\* it fails whenever one of the two endpoints is not resolved.
C25_EndOfBufferNotResolved ==
    /\ (pres # NotCalled /\ pres.ok) => pres.idx < Len(pbuf)
    /\ pspan # NotCalled =>
          /\ pspan.res.ok => pspan.res.start < Len(pbuf) /\ pspan.res.end < Len(pbuf)
          /\ pspan.span.end = PastTheEnd(pbuf) =>
                /\ ~pspan.res.ok
                /\ pspan.res.err \in {PosErr(pspan.span.start), PosErr(pspan.span.end)}
          /\ (Unresolvable(pbuf, pspan.span.start) \/ Unresolvable(pbuf, pspan.span.end))
                => ~pspan.res.ok

\* C25's case: a span that starts at a character of the buffer and ends
\* just after its last character, on the second line, is not resolved: the
\* error names the end position.
C25_Witness ==
    /\ pspan # NotCalled
    /\ Len(pbuf) >= 3
    /\ ~Unresolvable(pbuf, pspan.span.start)
    /\ pspan.span.end = PastTheEnd(pbuf)
    /\ pspan.span.end.line = 2
    /\ ~pspan.res.ok
    /\ pspan.res.err = PosErr(pspan.span.end)

----------------------------------------------------------------------------
(* Claims about the add command (checked under Spec).  The definitions     *)
(* below state what the specification says of a document, from the parsed  *)
(* tree and the text alone.                                                *)

\* The state right after upsert_flake_input of add.rs has returned.
AfterUpsert == variant = "add.rs" /\ stage = "upsert"

\* The raw-part segments of a binding's key, in order.
RawNames(from) ==
    LET RECURSIVE Names(_)
        Names(i) ==
            IF i > Len(from) THEN <<>>
            ELSE IF from[i].kind = "Raw" THEN <<from[i].content>> \o Names(i + 1)
            ELSE Names(i + 1)
    IN  Names(1)

IsPrefixOf(p, q) == Len(p) <= Len(q) /\ SubSeq(q, 1, Len(p)) = p

\* The indexes of the bindings of a Map whose key is a prefix of the path.
OnPath(bindings, path) ==
    {i \in 1..Len(bindings) :
        /\ bindings[i].kind = "KeyValue"
        /\ IsPrefixOf(RawNames(bindings[i].from), path)}

Inherits(bindings) == {i \in 1..Len(bindings) : bindings[i].kind = "Inherit"}

Least(S) == CHOOSE i \in S : \A j \in S : i <= j

DropFirst(path, n) == SubSeq(path, n + 1, Len(path))

\* The expression the path resolves to, first occurrence wins and no
\* backtracking; None when the path is not there or the search meets an
\* inherit first.
RECURSIVE Resolve(_, _)
Resolve(expr, path) ==
    IF path = <<>> THEN expr
    ELSE IF expr.kind # "Map" THEN None
    ELSE IF OnPath(expr.bindings, path) = {} THEN None
    ELSE IF \E h \in Inherits(expr.bindings) : h < Least(OnPath(expr.bindings, path))
    THEN None
    ELSE Resolve(expr.bindings[Least(OnPath(expr.bindings, path))].to,
                 DropFirst(path, Len(RawNames(
                     expr.bindings[Least(OnPath(expr.bindings, path))].from))))

\* The offset of a position of the text, by counting: the characters up to
\* the line break that ends the line before, and the columns before it.
OffsetOf(buf, position) ==
    LET breaks == {i \in 1..Len(buf) : buf[i] = NEWLINE}
    IN  (IF position.line = 1 THEN 0
         ELSE CHOOSE b \in breaks :
                  Cardinality({c \in breaks : c <= b}) = position.line - 1)
            + position.column - 1

\* The lines of a text: what stands between its line breaks.
Lines(buf) ==
    LET breaks == {i \in 1..Len(buf) : buf[i] = NEWLINE}
        RECURSIVE From(_)
        From(i) ==
            IF {b \in breaks : b >= i} = {} THEN <<SubSeq(buf, i, Len(buf))>>
            ELSE <<SubSeq(buf, i, Least({b \in breaks : b >= i}) - 1)>>
                     \o From(Least({b \in breaks : b >= i}) + 1)
    IN  From(1)

\* The blanks a line starts with.
RECURSIVE Indentation(_)
Indentation(line) ==
    IF line # <<>> /\ Head(line) = " " THEN <<" ">> \o Indentation(Tail(line))
    ELSE <<>>

\* inputs.<name>.url = "<url>"; without the line break after it.
NewBinding == W_inputs \o <<".">> \o inputName \o <<".">> \o W_url
                  \o <<" ", "=", " ", "\"">> \o inputUrl \o <<"\"", ";">>

\* upsert_flake_input has inserted a new binding: the search ended without
\* an error and left an anchor.
Inserted == AfterUpsert /\ err = NoErr /\ firstRaw # None

\* The target path resolves to a String of exactly one part, a Raw.
ResolvesToSinglePart ==
    /\ AfterUpsert
    /\ Resolve(parsedExpr, AttrPath(inputName)) # None
    /\ Resolve(parsedExpr, AttrPath(inputName)).kind = "String"
    /\ Len(Resolve(parsedExpr, AttrPath(inputName)).parts) = 1
    /\ Resolve(parsedExpr, AttrPath(inputName)).parts[1].kind = "Raw"

ValueSpan == Resolve(parsedExpr, AttrPath(inputName)).parts[1].span

\* C1: when inputs.<name>.url resolves to an existing single-part string,
\* upsert_flake_input succeeds and the output buffer is the input up to the
\* start offset of the value's span, then the new value, then the input from
\* the span's end offset on.
C1_ReplaceOnlyInsideSpan ==
    ResolvesToSinglePart =>
        /\ err = NoErr
        /\ outputBuf = SubSeq(inputBuf, 1, OffsetOf(inputBuf, ValueSpan.start))
                           \o inputUrl
                           \o SubSeq(inputBuf, OffsetOf(inputBuf, ValueSpan.end) + 1,
                                     Len(inputBuf))

\* C1's case: a value in the middle of a document of several lines is
\* replaced by a new value of another length.
C1_Witness ==
    /\ ResolvesToSinglePart
    /\ err = NoErr
    /\ ValueSpan.start.line >= 2
    /\ Len(inputUrl) # OffsetOf(inputBuf, ValueSpan.end) - OffsetOf(inputBuf, ValueSpan.start)
    /\ outputBuf # inputBuf

\* C2: when a new binding is inserted, (a) its line is the leading
\* indentation of the anchor's line followed by the binding, and (b) the
\* lines of the input are all in the output, unchanged and in order, the
\* ones from the anchor's line on shifted down by the one or two new lines.
C2_InsertKeepsLines ==
    Inserted =>
        \E k \in {1, 2} :
            /\ Len(Lines(outputBuf)) = Len(Lines(inputBuf)) + k
            /\ Lines(outputBuf)[firstRaw.span.start.line]
                   = Indentation(Lines(inputBuf)[firstRaw.span.start.line]) \o NewBinding
            /\ \A i \in 1..Len(Lines(inputBuf)) :
                   Lines(inputBuf)[i]
                       = Lines(outputBuf)[IF i < firstRaw.span.start.line THEN i ELSE i + k]

\* C3: running the command again on the file it wrote, with the same name
\* and value, succeeds and produces exactly the document of the first run.
C3_Idempotent ==
    (/\ AfterUpsert
     /\ prev # None
     /\ inputBuf = prev.contents
     /\ inputName = prev.name
     /\ inputUrl = prev.url)
    => /\ err = NoErr
       /\ outputBuf = prev.contents

\* C4: while the command runs, an error returned by any step before the
\* write leaves flake.nix as it was when the command started; the file is
\* written only by the last step, with no error before it.
C4_WriteOnlyAfterSuccess ==
    pc # "idle" =>
        /\ err # NoErr => file = started.file /\ writes = started.writes
        /\ pc = "failed" => err # NoErr
        /\ writes # started.writes
               => pc = "done" /\ stage = "write" /\ err = NoErr
                     /\ writes = started.writes + 1

\* C4's case: the upsert fails after it has changed the buffer in memory,
\* and the file on disk is still the one the command found.
C4_Witness ==
    /\ pc = "failed"
    /\ stage = "upsert"
    /\ variant = "add.rs"
    /\ outputBuf # inputBuf
    /\ file = started.file
    /\ file.contents = inputBuf

\* The first inherit the search reaches: in a visited Map, an inherit before
\* the first binding on the path, or any inherit when no binding is on the
\* path; None when the search reaches none.
RECURSIVE ReachedInherit(_, _)
ReachedInherit(expr, path) ==
    IF expr.kind # "Map" THEN None
    ELSE IF /\ Inherits(expr.bindings) # {}
            /\ \A m \in OnPath(expr.bindings, path) : Least(Inherits(expr.bindings)) < m
    THEN expr.bindings[Least(Inherits(expr.bindings))]
    ELSE IF OnPath(expr.bindings, path) = {} THEN None
    ELSE ReachedInherit(expr.bindings[Least(OnPath(expr.bindings, path))].to,
                        DropFirst(path, Len(RawNames(
                            expr.bindings[Least(OnPath(expr.bindings, path))].from))))

\* Whether a Map the search visits holds an inherit, at any place among its
\* bindings.
RECURSIVE VisitsInherit(_, _)
VisitsInherit(expr, path) ==
    /\ expr.kind = "Map"
    /\ \/ Inherits(expr.bindings) # {}
       \/ /\ OnPath(expr.bindings, path) # {}
          /\ VisitsInherit(expr.bindings[Least(OnPath(expr.bindings, path))].to,
                           DropFirst(path, Len(RawNames(
                               expr.bindings[Least(OnPath(expr.bindings, path))].from))))

IsInheritError(e) == e # NoErr /\ e.what = "Inherit"

\* C8 as stated: an inherit anywhere in a visited Map, before or after the
\* binding on the path, makes the upsert fail with an inherit error and
\* leaves the buffer without a replacement or an insertion.
C8_AnyInheritAborts ==
    (AfterUpsert /\ VisitsInherit(parsedExpr, AttrPath(inputName)))
    => IsInheritError(err) /\ outputBuf = inputBuf /\ edits = <<>>

\* C8: an inherit the search reaches (in a visited Map, before the first
\* binding on the path, or anywhere when no binding is on the path) makes
\* the upsert fail with the error carrying the line and column where that
\* inherit starts, and no replacement and no insertion is made.
C8_ReachedInheritAborts ==
    (AfterUpsert /\ ReachedInherit(parsedExpr, AttrPath(inputName)) # None)
    => /\ IsInheritError(err)
       /\ err.line = ReachedInherit(parsedExpr, AttrPath(inputName)).span.start.line
       /\ err.column = ReachedInherit(parsedExpr, AttrPath(inputName)).span.start.column
       /\ outputBuf = inputBuf
       /\ edits = <<>>

\* C8's case: the inherit is inside the Map the path leads into, not on the
\* first line and not in the first column.
C8_Witness ==
    /\ AfterUpsert
    /\ ReachedInherit(parsedExpr, AttrPath(inputName)) # None
    /\ ReachedInherit(parsedExpr, AttrPath(inputName)) \notin
           {parsedExpr.bindings[i] : i \in 1..Len(parsedExpr.bindings)}
    /\ IsInheritError(err)
    /\ err.line >= 2
    /\ err.column >= 3
    /\ pc = "failed"

\* C9: when the path resolves to a String of more than one part, the
\* replacement fails with the multi-part error and the output buffer is the
\* buffer from before the call.
C9_MultiPartLeavesBuffer ==
    (/\ AfterUpsert
     /\ Resolve(parsedExpr, AttrPath(inputName)) # None
     /\ Resolve(parsedExpr, AttrPath(inputName)).kind = "String"
     /\ Len(Resolve(parsedExpr, AttrPath(inputName)).parts) > 1)
    => /\ err = MultiPartErr
       /\ outputBuf = inputBuf

\* C10: the new binding and its line break stand at the anchor's start
\* offset, and what follows them is one more line break, a blank line,
\* exactly when the anchor's content is not inputs; above an inputs anchor
\* the line after the new binding is the line of the anchor.
C10_SeparatorIffNotInputs ==
    Inserted =>
        LET at == OffsetOf(inputBuf, firstRaw.span.start)
            line == firstRaw.span.start.line
            text == NewBinding \o <<NEWLINE>>
        IN  /\ SubSeq(outputBuf, at + 1, at + Len(text)) = text
            /\ (outputBuf[at + Len(text) + 1] = NEWLINE) <=> (firstRaw.content # W_inputs)
            /\ (Lines(outputBuf)[line + 1] = <<>>) <=> (firstRaw.content # W_inputs)
            /\ firstRaw.content = W_inputs
                   => Lines(outputBuf)[line + 1] = Lines(inputBuf)[line]

\* { inputs = { }; outputs = { ... }: { }; }
C10_Document == Document("single", <<B_inputs_empty, B_outputs>>)

\* C10's case: the document { inputs = { }; outputs = { ... }: { }; } gets
\* the new binding with no blank line before the line of inputs.
C10_Witness ==
    /\ Inserted
    /\ inputBuf = C10_Document
    /\ firstRaw.content = W_inputs
    /\ Len(Lines(outputBuf)) = 2
    /\ Lines(outputBuf)[2] = C10_Document

\* The state right after infer_flake_input_name_url of add/mod.rs has
\* returned.
AfterModInfer == variant = "add/mod.rs" /\ stage = "infer"

IsErrorWith(e, msg) == e # NoErr /\ e.msg = msg

\* C15: in add/mod.rs, a reference without a scheme that does not split
\* into two or three segments fails with the malformed-reference error; a
\* URL with a host fails with the cannot-infer-name error when no name was
\* supplied; a URL without a host fails with that error exactly when no
\* name was supplied and its path has no second segment; and a supplied
\* name is the name returned whenever the inference succeeds.
C15_ModInference ==
    AfterModInfer =>
        /\ (args.ref.form = "relative" /\ Len(args.ref.segs) \notin {2, 3})
               => IsErrorWith(err, "flakehub input did not match the expected format")
        /\ (args.ref.form = "hosted" /\ args.input_name = None)
               => IsErrorWith(err, "cannot infer an input name")
        /\ args.ref.form = "hostless"
               => /\ IsErrorWith(err, "cannot infer an input name")
                      <=> (args.input_name = None /\ Len(args.ref.segs) < 2)
                  /\ err # NoErr => IsErrorWith(err, "cannot infer an input name")
        /\ (args.input_name # None /\ err = NoErr)
               => inputName = args.input_name.value

\* C15's case: a URL without a host and without a second path segment, with
\* a supplied name, is inferred under the supplied name.
C15_Witness ==
    /\ AfterModInfer
    /\ args.ref.form = "hostless"
    /\ Len(args.ref.segs) < 2
    /\ args.input_name # None
    /\ err = NoErr
    /\ inputName = args.input_name.value
    /\ pc = "inferred"

\* The first binding of a Map the walk accepts for the path: the first one
\* whose key is a prefix of the path, when no inherit stands before it; 0
\* when there is none.
Accepted(bindings, path) ==
    IF OnPath(bindings, path) = {} THEN 0
    ELSE IF \E h \in Inherits(bindings) : h < Least(OnPath(bindings, path)) THEN 0
    ELSE Least(OnPath(bindings, path))

\* What is left of the path below the accepted binding.
Rest(bindings, path) ==
    DropFirst(path, Len(RawNames(bindings[Accepted(bindings, path)].from)))

\* The walk into the expression ends in a Map that holds nothing on the
\* path and no inherit: it finds no match and raises no error.
RECURSIVE DeadEnd(_, _)
DeadEnd(expr, path) ==
    /\ expr.kind = "Map"
    /\ IF OnPath(expr.bindings, path) = {} THEN Inherits(expr.bindings) = {}
       ELSE /\ Accepted(expr.bindings, path) # 0
            /\ DeadEnd(expr.bindings[Accepted(expr.bindings, path)].to,
                       Rest(expr.bindings, path))

\* The top-level Map has an accepted binding whose value is a dead end, and
\* a later sibling that is an inherit or holds the whole path.
PassesOverSibling ==
    /\ AfterUpsert
    /\ parsedExpr.kind = "Map"
    /\ Accepted(parsedExpr.bindings, AttrPath(inputName)) # 0
    /\ DeadEnd(parsedExpr.bindings[Accepted(parsedExpr.bindings, AttrPath(inputName))].to,
               Rest(parsedExpr.bindings, AttrPath(inputName)))
    /\ \E j \in 1..Len(parsedExpr.bindings) :
          /\ j > Accepted(parsedExpr.bindings, AttrPath(inputName))
          /\ \/ parsedExpr.bindings[j].kind = "Inherit"
             \/ /\ parsedExpr.bindings[j].kind = "KeyValue"
                /\ RawNames(parsedExpr.bindings[j].from) = AttrPath(inputName)
                /\ parsedExpr.bindings[j].to.kind = "String"

\* C16: once the walk has gone into the value of the first binding whose
\* key is a prefix of the path, no later sibling is examined, also when the
\* value held no match: a later sibling that holds the whole path is not
\* replaced and a later inherit raises no error; the walk ends without a
\* match, and the only edit is the insertion of a new binding.
C16_NoBacktracking ==
    PassesOverSibling => err = NoErr /\ edits = <<"insert">>

\* C16's case: the first binding is inputs = { ... } without the input, the
\* next is inputs.x.url = "old", and that value is still in the buffer
\* after the upsert of inputs.x.url.
C16_Witness ==
    /\ PassesOverSibling
    /\ \E j \in 2..Len(parsedExpr.bindings) :
          /\ parsedExpr.bindings[j].kind = "KeyValue"
          /\ RawNames(parsedExpr.bindings[j].from) = AttrPath(inputName)
          /\ parsedExpr.bindings[j].to.kind = "String"
    /\ edits = <<"insert">>
    /\ pc = "upserted"

\* The walk reaches a String while segments of the path remain.
RECURSIVE ReachesStringEarly(_, _)
ReachesStringEarly(expr, path) ==
    IF expr.kind = "String" THEN path # <<>>
    ELSE /\ expr.kind = "Map"
         /\ Accepted(expr.bindings, path) # 0
         /\ ReachesStringEarly(expr.bindings[Accepted(expr.bindings, path)].to,
                               Rest(expr.bindings, path))

\* The walk reaches a String, with or without segments of the path left.
RECURSIVE ReachesString(_, _)
ReachesString(expr, path) ==
    IF expr.kind = "String" THEN TRUE
    ELSE /\ expr.kind = "Map"
         /\ Accepted(expr.bindings, path) # 0
         /\ ReachesString(expr.bindings[Accepted(expr.bindings, path)].to,
                          Rest(expr.bindings, path))

\* C17: when the walk reaches a String while one or more segments of the
\* path remain, as for inputs.x.url against inputs.x = "old", no value is
\* replaced: the buffer keeps the string.
C17_StringLeafOnlyAtPathEnd ==
    (AfterUpsert /\ ReachesStringEarly(parsedExpr, AttrPath(inputName)))
    => /\ "replace" \notin {edits[i] : i \in 1..Len(edits)}
       /\ outputBuf = inputBuf \/ edits = <<"insert">>

\* A binding the walk compares with the path has an Interpolation part in
\* its key: a binding of a visited Map up to the accepted one, or any
\* binding when none is accepted.
RECURSIVE ComparesInterpolatedKey(_, _)
ComparesInterpolatedKey(expr, path) ==
    /\ expr.kind = "Map"
    /\ \/ \E i \in 1..Len(expr.bindings) :
             /\ expr.bindings[i].kind = "KeyValue"
             /\ \E k \in 1..Len(expr.bindings[i].from) :
                   expr.bindings[i].from[k].kind = "Interpolation"
             /\ \A h \in Inherits(expr.bindings) : i < h
             /\ \A m \in OnPath(expr.bindings, path) : i <= m
       \/ /\ Accepted(expr.bindings, path) # 0
          /\ ComparesInterpolatedKey(expr.bindings[Accepted(expr.bindings, path)].to,
                                     Rest(expr.bindings, path))

\* C18: when the walk compares a binding whose key has an Interpolation
\* part with the path, the upsert fails with an error; the part is not
\* dropped from the key.
C18_InterpolatedKeyIsError ==
    (AfterUpsert /\ ComparesInterpolatedKey(parsedExpr, AttrPath(inputName)))
    => err # NoErr /\ edits = <<>>

\* The errors the walk raises.
IsWalkError(e) ==
    /\ e # NoErr
    /\ e.msg \in {"inherit not supported", "unsupported expression type",
                  "unexpected expression or interpolation",
                  "Nix string had multiple parts"}

\* C19: one upsert applies at most one of the two edits.  After a value
\* was replaced without an error the anchor is cleared and nothing is
\* inserted; a binding is inserted only when the walk ended without an
\* error, without reaching a String, and with an anchor; after an error of
\* the walk nothing is inserted.
C19_AtMostOneEdit ==
    AfterUpsert =>
        /\ Len(edits) <= 1
        /\ (edits = <<"replace">> /\ err = NoErr) => firstRaw = None
        /\ edits = <<"insert">>
               => /\ firstRaw # None
                  /\ ~ReachesString(parsedExpr, AttrPath(inputName))
                  /\ ~IsWalkError(err)
        /\ IsWalkError(err) => "insert" \notin {edits[i] : i \in 1..Len(edits)}
        /\ (err = NoErr /\ firstRaw # None) => edits = <<"insert">>

\* C19's case: the walk replaced the value of a document that has an
\* earlier binding to anchor an insertion at, and nothing was inserted.
C19_Witness ==
    /\ AfterUpsert
    /\ edits = <<"replace">>
    /\ err = NoErr
    /\ firstRaw = None
    /\ parsedExpr.kind = "Map"
    /\ Len(parsedExpr.bindings) >= 2
    /\ Accepted(parsedExpr.bindings, AttrPath(inputName)) >= 2
    /\ pc = "upserted"

\* load_flake of add/mod.rs has returned the pair this run works on.
Loaded ==
    /\ variant = "add/mod.rs"
    /\ pc \notin {"idle", "started"}
    /\ stage # "read" \/ err = NoErr

\* The text is empty or holds blanks and line breaks only.
IsWhitespace(text) == \A i \in 1..Len(text) : text[i] \in {" ", NEWLINE}

\* The text parses to a top-level attribute set without bindings.
IsEmptyMap(text) == Parse(text).kind = "Map" /\ Parse(text).bindings = <<>>

\* The file the run started on is one load_flake replaces by the fallback.
NeedsFallback(f) == ~f.exists \/ IsWhitespace(f.contents) \/ IsEmptyMap(f.contents)

\* C24: load_flake returns the fallback document when the file does not
\* exist, when it is empty or blank, or when it parses to a top-level
\* attribute set without bindings, and the contents of the file otherwise;
\* the tree it returns is the parse of the contents it returns; so a
\* top-level attribute set handed to upsert by add has a binding, and an
\* upsert that ends well without its walk reaching a string has found an
\* anchor and inserted the input there.
C24_FallbackOnEmptyFlake ==
    Loaded =>
        /\ inputBuf = IF NeedsFallback(started.file) THEN FALLBACK_FLAKE_CONTENTS
                      ELSE started.file.contents
        /\ parsedExpr = Parse(inputBuf)
        /\ parsedExpr.kind = "Map" => parsedExpr.bindings # <<>>
        /\ (/\ stage = "upsert"
            /\ err = NoErr
            /\ ~ReachesString(parsedExpr, AttrPath(inputName))) =>
              firstRaw # None /\ edits = <<"insert">>

\* C24's case: the file held an attribute set without bindings, the
\* fallback took its place, and the upsert inserted the input at the
\* anchor of the fallback.
C24_Witness ==
    /\ Loaded
    /\ started.file.exists
    /\ ~IsWhitespace(started.file.contents)
    /\ IsEmptyMap(started.file.contents)
    /\ inputBuf = FALLBACK_FLAKE_CONTENTS
    /\ stage = "upsert"
    /\ err = NoErr
    /\ firstRaw # None
    /\ edits = <<"insert">>

----------------------------------------------------------------------------
(* Claims about the convert command (checked under SpecConvert). *)

\* C5: while convert runs with the dry flag, it has written no file, and
\* flake.nix, shell.nix and default.nix are as they were when it started;
\* when it ends well it has printed the edited document and nothing else.
\* Without the flag, flake.nix is written by no step but the last, and when
\* the command ends well it has written flake.nix exactly once, after every
\* other file it wrote, and flake.nix holds the edited document.
C5_DryWritesNothing ==
    (variant = "convert.rs" /\ pc # "idle") =>
        /\ args.dry_run =>
              /\ wrote = <<>>
              /\ file = started.file
              /\ shellNix = started.shellNix
              /\ defaultNix = started.defaultNix
        /\ (args.dry_run /\ pc = "done") => printed = <<outputBuf>>
        /\ (~args.dry_run /\ pc # "done") =>
              /\ file = started.file
              /\ \A i \in 1..Len(wrote) : wrote[i] # FLAKE_NIX
        /\ (~args.dry_run /\ pc = "done") =>
              /\ wrote # <<>>
              /\ wrote[Len(wrote)] = FLAKE_NIX
              /\ \A i \in 1..(Len(wrote) - 1) : wrote[i] # FLAKE_NIX
              /\ file = [exists |-> TRUE, contents |-> outputBuf]
              /\ printed = <<>>

\* C5's case: a dry run has met the flake-compat input, shell.nix and
\* default.nix fetch the unpinned flake-compat, the document was edited, and
\* the command ends with the edit printed and nothing written.
C5_Witness ==
    /\ variant = "convert.rs"
    /\ pc = "done"
    /\ args.dry_run
    /\ compatName # None
    /\ shellNix.exists /\ Contains(shellNix.contents, FLAKE_COMPAT_MARKER)
    /\ defaultNix.exists /\ Contains(defaultNix.contents, FLAKE_COMPAT_MARKER)
    /\ outputBuf # file.contents
    /\ printed = <<outputBuf>>
    /\ wrote = <<>>

\* NixOS
W_NixOS ==
    <<"N", "i", "x", "O", "S">>

\* 0.2305.0
W_0_2305_0 ==
    <<"0", ".", "2", "3", "0", "5", ".", "0">>

\* inputs.x.url = "url";
UrlBinding(url) ==
    <<"i", "n", "p", "u", "t", "s", ".", "x", ".", "u", "r", "l", " ", "=",
    " ", "\"">> \o url \o <<"\"", ";">>

\* The requests this run has sent, without the answers.
RequestsSent ==
    [i \in 1..Len(requests) |->
        Request(requests[i].org, requests[i].repo, requests[i].version)]

\* The conversion of the inputs has just run on the document whose one
\* input is the binding b.
ConvertedInput(b) ==
    /\ variant = "convert.rs"
    /\ stage = "inputs"
    /\ inputBuf = Document("indented", <<b>>)

\* The nixpkgs input b was resolved to the version: the one request names
\* it, and when the registry answers the URL of the input is the one of
\* that version.
ResolvesTo(b, version) ==
    ConvertedInput(b) =>
        /\ RequestsSent = <<Request(W_NixOS, W_nixpkgs, Some(version))>>
        /\ err = NoErr =>
              outputBuf = Document("indented",
                                   <<UrlBinding(FlakehubUrl(HostUrl, W_NixOS, W_nixpkgs,
                                                            version \o W_tar_gz))>>)

\* The input b was left unconverted: no request, no error, the text kept.
LeftUnconverted(b) ==
    ConvertedInput(b) => requests = <<>> /\ err = NoErr /\ outputBuf = inputBuf

\* C11 (as amended): for a github:NixOS/nixpkgs/<branch> input, after one
\* trailing -small or -darwin is stripped, nixpkgs-unstable and
\* nixos-unstable resolve to version 0.1.0, nixos-23.05 and
\* nixpkgs-23.05-darwin to 0.2305.0, nixos-19.09 is left unconverted, and
\* release-23.05-small is left unconverted too, the release pattern naming
\* only nixos- and nixpkgs- branches.
C11_BranchClassification ==
    /\ ResolvesTo(B_nixpkgs_unstable, W_0_1_0)
    /\ ResolvesTo(B_nixos_unstable_small, W_0_1_0)
    /\ ResolvesTo(B_nixos_23_05, W_0_2305_0)
    /\ ResolvesTo(B_nixpkgs_23_05_darwin, W_0_2305_0)
    /\ LeftUnconverted(B_nixos_19_09)
    /\ LeftUnconverted(B_release_23_05_small)

\* C11's case: the branch nixos-unstable-small was stripped of its suffix,
\* resolved to 0.1.0 and the URL of the input replaced.
C11_Witness ==
    /\ ConvertedInput(B_nixos_unstable_small)
    /\ pc = "converted"
    /\ RequestsSent = <<Request(W_NixOS, W_nixpkgs, Some(W_0_1_0))>>
    /\ outputBuf # inputBuf

\* C11 as stated: release-23.05-small resolves to version 0.2305.0.
C11_ReleaseBranchResolves ==
    ResolvesTo(B_release_23_05_small, W_0_2305_0)

\* The inputs the conversion enumerates in the document it was given.
AllInputs == collect_all_inputs(parsedExpr).inputs

\* Extracting the current value of the input raises a structural error.
HasStructuralError(input) == find_input_value_by_path(input.to, <<W_url>>).err # NoErr

\* The value of the input that was extracted is a URL of the form
\* github:org/repo, whose latest version the registry is asked for.
IsGithubRepoUrl(parsed_url) ==
    /\ parsed_url.ok
    /\ ~parsed_url.has_host
    /\ parsed_url.scheme = W_github
    /\ Len(Split(parsed_url.path, "/")) = 2

HasGithubRepoValue(v) ==
    v.err = NoErr /\ v.value # None /\ IsGithubRepoUrl(ParseUrl(v.value.value))

IsGithubRepoInput(input) ==
    HasGithubRepoValue(find_input_value_by_path(input.to, <<W_url>>))

\* The conversion has run on a document whose inputs were enumerated and
\* one of whose inputs has a value that raises a structural error.
MetStructuralError ==
    /\ variant = "convert.rs"
    /\ stage = "inputs"
    /\ parsedExpr.kind = "Map"
    /\ collect_all_inputs(parsedExpr).err = NoErr
    /\ \E k \in 1..Len(AllInputs) : HasStructuralError(AllInputs[k])

\* C12: when extracting the value of one input raises a structural error (an
\* inherit, or an expression that is neither an attribute set nor a string),
\* only that input is skipped: the pass goes on to the other inputs, asking
\* the registry for each github:org/repo input among them, and returns a
\* buffer, not an error.
C12_StructuralErrorSkipsInput ==
    MetStructuralError =>
        /\ \A k \in 1..Len(AllInputs) :
              IsGithubRepoInput(AllInputs[k]) =>
                  \E i \in 1..Len(requests) :
                      requests[i].repo = InputNameOf(AllInputs[k].from).value
        /\ err = NoErr
        /\ pc = "converted"

\* The name of the companion file was written by this run.
Overwritten(name) == \E i \in 1..Len(wrote) : wrote[i] = name

\* The working tree holds a modification of the file that is not committed.
PendingModification(name) == \E path \in git.modified : Contains(path, name)

\* What allows the command to overwrite the companion file it found.
MayOverwrite(found, name) ==
    /\ found.exists
    /\ Contains(found.contents, FLAKE_COMPAT_MARKER)
    /\ git # None
    /\ git.is_a_git_repo
    /\ ~PendingModification(name)

\* C13: convert overwrites shell.nix or default.nix only when the file
\* exists, its contents hold the flake-compat marker, the directory is a git
\* repository and the working tree has no pending modification of that
\* file; in every other case the file is as the command found it.
C13_CompanionOverwriteGate ==
    (variant = "convert.rs" /\ pc # "idle") =>
        /\ Overwritten(SHELL_NIX) => MayOverwrite(started.shellNix, SHELL_NIX)
        /\ Overwritten(DEFAULT_NIX) => MayOverwrite(started.defaultNix, DEFAULT_NIX)
        /\ ~Overwritten(SHELL_NIX) => shellNix = started.shellNix
        /\ ~Overwritten(DEFAULT_NIX) => defaultNix = started.defaultNix

\* The gate with the answer of git, the output the command reads, in the
\* place of the working tree: it holds, so the overwrite of a modified file
\* comes from what git is asked, not from the test on its answer.
C13_GateOnGitOutput ==
    (variant = "convert.rs" /\ pc # "idle") =>
        /\ Overwritten(SHELL_NIX) =>
              /\ started.shellNix.exists
              /\ Contains(started.shellNix.contents, FLAKE_COMPAT_MARKER)
              /\ git.is_a_git_repo /\ git.shell_nix_clean
        /\ Overwritten(DEFAULT_NIX) =>
              /\ started.defaultNix.exists
              /\ Contains(started.defaultNix.contents, FLAKE_COMPAT_MARKER)
              /\ git.is_a_git_repo /\ git.default_nix_clean
        /\ ~Overwritten(SHELL_NIX) => shellNix = started.shellNix
        /\ ~Overwritten(DEFAULT_NIX) => defaultNix = started.defaultNix

----------------------------------------------------------------------------
(* Claims about the buffer of the conversion pass (checked under           *)
(* SpecConvert).                                                           *)

\* The buffer with the value spans of the first k edits replaced by their
\* URLs, the spans looked up in the buffer the document was parsed from and
\* the last of them replaced first, so that no replacement moves a span
\* that is still to be replaced.
RECURSIVE ReplaceSpans(_, _, _, _)

ReplaceSpan(original, buf, es, k, o) ==
    ReplaceSpans(original,
                 InsertStr(RemoveRange(buf, o.start, o.end), o.start, es[k].url),
                 es, k - 1)

ReplaceSpans(original, buf, es, k) ==
    IF k = 0 THEN buf
    ELSE ReplaceSpan(original, buf, es, k,
                     span_to_start_end_offsets(original, es[k].span))

\* The conversion of the inputs has returned a buffer.
ConvertedBuffer ==
    /\ variant = "convert.rs"
    /\ stage = "inputs"
    /\ err = NoErr

\* Two of the values that were converted lie on the same source line.
SameLineEdits ==
    \E i, j \in 1..Len(edits) :
        i # j /\ edits[i].span.start.line = edits[j].span.start.line

\* C20: the buffer convert_inputs_to_flakehub returns is the original buffer
\* with the value span of every converted input replaced by its resolved
\* URL and every other byte unchanged, in every layout of the inputs, two
\* converted values on one source line included.
C20_BufferIsOriginalWithSpansReplaced ==
    ConvertedBuffer => outputBuf = ReplaceSpans(inputBuf, inputBuf, edits, Len(edits))

\* The same for the passes that convert no two values of one line: it
\* holds, so the buffers that differ are those of two values on one line.
C20_HoldsOnSeparateLines ==
    (ConvertedBuffer /\ ~SameLineEdits) =>
        outputBuf = ReplaceSpans(inputBuf, inputBuf, edits, Len(edits))

\* Two values on separate lines were both converted.
C20_TwoLinesConverted ==
    ConvertedBuffer /\ ~SameLineEdits /\ Len(edits) = 2

\* execute takes the step that makes the implicit nixpkgs input explicit.
NixpkgsStep == variant = "convert.rs" /\ pc = "converted" /\ stage' = "nixpkgs"

\* Some binding of the tree lies under the path: its key, joined to the
\* keys of the attribute sets around it, starts with the path.
RECURSIVE DeclaresUnder(_, _)
DeclaresUnder(expr, path) ==
    /\ expr.kind = "Map"
    /\ \E i \in 1..Len(expr.bindings) :
          /\ expr.bindings[i].kind = "KeyValue"
          /\ \/ IsPrefixOf(path, RawNames(expr.bindings[i].from))
             \/ /\ RawNames(expr.bindings[i].from) # <<>>
                /\ IsPrefixOf(RawNames(expr.bindings[i].from), path)
                /\ DeclaresUnder(expr.bindings[i].to,
                                 DropFirst(path, Len(RawNames(expr.bindings[i].from))))

\* The value of outputs is a function whose destructured head lists an
\* argument of the name.
OutputsNames(expr, name) ==
    /\ expr.kind = "Map"
    /\ \E i \in 1..Len(expr.bindings) :
          /\ expr.bindings[i].kind = "KeyValue"
          /\ RawNames(expr.bindings[i].from) = <<W_outputs>>
          /\ expr.bindings[i].to.kind = "Function"
          /\ expr.bindings[i].to.head.kind = "Destructured"
          /\ \E a \in 1..Len(expr.bindings[i].to.head.arguments) :
                expr.bindings[i].to.head.arguments[a].identifier = name

\* The flake uses nixpkgs without declaring it.
NixpkgsIsImplicit ==
    /\ ~DeclaresUnder(parsedExpr, <<W_inputs, W_nixpkgs>>)
    /\ OutputsNames(parsedExpr, W_nixpkgs)

\* h://f/f/nixos/nixpkgs/*.tar.gz
W_nixpkgs_latest ==
    <<"h", ":", "/", "/", "f", "/", "f", "/", "n", "i", "x", "o", "s", "/",
    "n", "i", "x", "p", "k", "g", "s", "/", "*", ".", "t", "a", "r", ".",
    "g", "z">>

\* inputs.nixpkgs.url = "h://f/f/nixos/nixpkgs/*.tar.gz";
B_nixpkgs_latest ==
    <<"i", "n", "p", "u", "t", "s", ".", "n", "i", "x", "p", "k", "g", "s",
    ".", "u", "r", "l", " ", "=", " ", "\"", "h", ":", "/", "/", "f", "/",
    "f", "/", "n", "i", "x", "o", "s", "/", "n", "i", "x", "p", "k", "g",
    "s", "/", "*", ".", "t", "a", "r", ".", "g", "z", "\"", ";">>

\* The text stands somewhere in the buffer.
ContainsText(buf, text) ==
    \E i \in 1..(Len(buf) - Len(text) + 1) : SubSeq(buf, i, i + Len(text) - 1) = text

\* The request is the one for the latest nixpkgs of nixos.
IsNixpkgsLookup(request) ==
    /\ request.org = W_nixos
    /\ request.repo = W_nixpkgs
    /\ request.version = None

\* The second buffer is the first with the nixpkgs input as a new first
\* binding and every binding of the first after it.
NixpkgsInsertedAtTop(before, after) ==
    /\ ~ContainsText(before, B_nixpkgs_latest)
    /\ ContainsText(after, B_nixpkgs_latest)
    /\ Parse(after).kind = "Map"
    /\ Len(Parse(after).bindings) = Len(Parse(before).bindings) + 1
    /\ RawNames(Parse(after).bindings[1].from) = <<W_inputs, W_nixpkgs, W_url>>
    /\ \A i \in 1..Len(Parse(before).bindings) :
          RawNames(Parse(after).bindings[i + 1].from)
              = RawNames(Parse(before).bindings[i].from)

\* C23: convert inserts an explicit nixpkgs input exactly when no binding
\* lies under inputs.nixpkgs and the value of outputs is a function whose
\* destructured head lists nixpkgs: it then asks the registry once for the
\* latest nixpkgs of nixos and, when the registry answers, inserts the input
\* at the top; in every other case it sends no request and returns the
\* buffer it was given.
C23_ImplicitNixpkgsMadeExplicit ==
    [][NixpkgsStep =>
          IF NixpkgsIsImplicit
          THEN /\ Len(requests') = Len(requests) + 1
               /\ SubSeq(requests', 1, Len(requests)) = requests
               /\ IsNixpkgsLookup(requests'[Len(requests')])
               /\ IF requests'[Len(requests')].response = "ok"
                  THEN err' = NoErr /\ NixpkgsInsertedAtTop(outputBuf, outputBuf')
                  ELSE err' # NoErr /\ outputBuf' = outputBuf
          ELSE /\ requests' = requests
               /\ err' = NoErr
               /\ outputBuf' = outputBuf]_vars

\* C23's case: the step has inserted nixpkgs into a flake whose outputs
\* name it and whose inputs do not declare it.
C23_Witness ==
    /\ variant = "convert.rs"
    /\ stage = "nixpkgs"
    /\ err = NoErr
    /\ NixpkgsIsImplicit
    /\ requests # <<>>
    /\ IsNixpkgsLookup(requests[Len(requests)])
    /\ DeclaresUnder(Parse(outputBuf), <<W_inputs, W_nixpkgs>>)
    /\ ContainsText(outputBuf, B_nixpkgs_latest)

\* The step has left alone a flake that declares nixpkgs and whose outputs
\* name it.
C23_DeclaredLeftAlone ==
    /\ variant = "convert.rs"
    /\ stage = "nixpkgs"
    /\ err = NoErr
    /\ DeclaresUnder(parsedExpr, <<W_inputs, W_nixpkgs>>)
    /\ OutputsNames(parsedExpr, W_nixpkgs)
    /\ ~ContainsText(outputBuf, B_nixpkgs_latest)

\* execute takes the step that fixes the flake-compat input.
CompatStep == variant = "convert.rs" /\ pc = "compat" /\ stage' = "compat"

\* "github:edolstra/flake-compat"
W_shim_value ==
    <<"\"", "g", "i", "t", "h", "u", "b", ":", "e", "d", "o", "l", "s", "t",
    "r", "a", "/", "f", "l", "a", "k", "e", "-", "c", "o", "m", "p", "a",
    "t", "\"">>

\* x.url = "github:edolstra/flake-compat";
B_shim ==
    <<"x", ".", "u", "r", "l", " ", "=", " ", "\"", "g", "i", "t", "h", "u",
    "b", ":", "e", "d", "o", "l", "s", "t", "r", "a", "/", "f", "l", "a",
    "k", "e", "-", "c", "o", "m", "p", "a", "t", "\"", ";">>

\* x.url = "h://f/f/edolstra/flake-compat/*.tar.gz";
B_shim_latest ==
    <<"x", ".", "u", "r", "l", " ", "=", " ", "\"", "h", ":", "/", "/", "f",
    "/", "f", "/", "e", "d", "o", "l", "s", "t", "r", "a", "/", "f", "l",
    "a", "k", "e", "-", "c", "o", "m", "p", "a", "t", "/", "*", ".", "t",
    "a", "r", ".", "g", "z", "\"", ";">>

\* The index the text first stands at in the buffer, 0 when it is not there.
IndexOfText(buf, text) ==
    IF ~ContainsText(buf, text) THEN 0
    ELSE Least({i \in 1..(Len(buf) - Len(text) + 1) :
                   SubSeq(buf, i, i + Len(text) - 1) = text})

\* The buffer with the first old text replaced by the new one.
ReplaceText(buf, old, new) ==
    SubSeq(buf, 1, IndexOfText(buf, old) - 1) \o new
        \o SubSeq(buf, IndexOfText(buf, old) + Len(old), Len(buf))

\* C21: the fix-up of the flake-compat input works on the buffer it is
\* given, the one the conversions and the insertion before it have left:
\* the buffer it returns is that buffer with the text of the binding,
\* found there by reading the buffer, gone and the new binding standing
\* where the old one started, in the buffer's characters before and after
\* it nothing changed.
C21_FixupOnTheBufferItEdits ==
    [][(CompatStep /\ err' = NoErr) =>
          /\ ContainsText(outputBuf, B_shim)
          /\ outputBuf' = ReplaceText(outputBuf, B_shim, B_shim_latest)]_vars

\* C21's case: the fix-up has rewritten the binding in a buffer into which
\* the nixpkgs input was inserted in front of it, two lines below where the
\* tree of the file has it.
C21_Witness ==
    /\ variant = "convert.rs"
    /\ stage = "compat"
    /\ err = NoErr
    /\ ContainsText(outputBuf, B_nixpkgs_latest)
    /\ ContainsText(outputBuf, B_shim_latest)
    /\ IndexOfText(outputBuf, B_nixpkgs_latest) < IndexOfText(outputBuf, B_shim_latest)
    /\ ~ContainsText(outputBuf, B_shim)

\* The fix-up has rewritten the binding after an input before it on
\* another line was converted.
C21_AfterConversion ==
    /\ variant = "convert.rs"
    /\ stage = "compat"
    /\ err = NoErr
    /\ edits # <<>>
    /\ ContainsText(outputBuf, B_shim_latest)
    /\ Len(outputBuf) # Len(inputBuf) + Len(B_shim_latest) - Len(B_shim)

\* The fix-up has rewritten the binding inside inputs = { ... }.
C21_InsideInputs ==
    /\ variant = "convert.rs"
    /\ stage = "compat"
    /\ err = NoErr
    /\ ContainsText(outputBuf, B_shim_latest)
    /\ Parse(outputBuf).kind = "Map"
    /\ RawNames(Parse(outputBuf).bindings[1].from) = <<W_inputs>>

\* The file declares an input whose value is the flake-compat reference.
ShimDeclared == ContainsText(inputBuf, W_shim_value)

\* The registry answered the last request that was sent.
LastAnswered(reqs) == reqs # <<>> /\ reqs[Len(reqs)].response = "ok"

\* C22, as first stated: the flake-compat binding is rewritten only when
\* the input was discovered and the pass has modified the document
\* otherwise; in a buffer that is still the file's text the binding is left
\* as it was.
C22_RewrittenOnlyIfModified ==
    [][CompatStep =>
          /\ outputBuf' # outputBuf => ShimDeclared /\ outputBuf # inputBuf
          /\ outputBuf = inputBuf => outputBuf' = outputBuf]_vars

\* C22: the flake-compat binding is rewritten only when an input whose
\* value is github:edolstra/flake-compat was discovered, whether or not the
\* pass has modified the document otherwise: execute goes on to the fix-up
\* exactly when the file declares such an input, the steps before the
\* fix-up keep the binding, and the fix-up rewrites it whenever the registry
\* answers, also in a buffer that is still the file's text.
C22_RewrittenWheneverFound ==
    [][/\ (NixpkgsStep /\ err' = NoErr) => (pc' = "compat" <=> ShimDeclared)
       /\ (/\ variant = "convert.rs"
           /\ stage' \in {"inputs", "nixpkgs"}
           /\ err' = NoErr
           /\ ShimDeclared) => ContainsText(outputBuf', B_shim)
       /\ CompatStep =>
             /\ ShimDeclared
             /\ IF LastAnswered(requests')
                THEN /\ err' = NoErr
                     /\ ~ContainsText(outputBuf', B_shim)
                     /\ ContainsText(outputBuf', B_shim_latest)
                ELSE err' # NoErr /\ outputBuf' = outputBuf]_vars

\* C22's case: the flake-compat input is all the pass found, nothing else
\* was changed, and the fix-up has rewritten the binding.
C22_Witness ==
    /\ variant = "convert.rs"
    /\ stage = "compat"
    /\ err = NoErr
    /\ edits = <<>>
    /\ ShimDeclared
    /\ ~ContainsText(outputBuf, B_nixpkgs_latest)
    /\ outputBuf = ReplaceText(inputBuf, B_shim, B_shim_latest)
    /\ outputBuf # inputBuf

----------------------------------------------------------------------------
(* Claims about the registry (checked under SpecCommands). *)

\* The error of the run is the error of a request to the registry.
IsRegistryErr(e) == e.kind = "Err" /\ e.what \in {"Registry", "Transport"}

\* Request i of the run failed.
Failed(i) == requests[i].response # "ok"

\* The failure of request i is the error the operation returned: the run
\* stopped at it, with the body of the response when there is one.
Surfaced(i) ==
    /\ i = Len(requests)
    /\ err = RegistryErr(requests[i].response)
    /\ pc = "failed"

\* The failure of request i was not returned: the run went on after it.
Swallowed(i) == i < Len(requests) \/ ~IsRegistryErr(err)

\* No resolution sent its request twice: the inputs of a document name
\* different projects, so two requests of a run never name the same.
NoRetry ==
    \A i, j \in 1..Len(requests) : RequestsSent[i] = RequestsSent[j] => i = j

\* "github:org/repo"
GithubValue(org, repo) ==
    <<"\"">> \o W_github \o <<":">> \o org \o <<"/">> \o repo \o <<"\"">>

\* Request i asks for the latest version of a github:org/repo input of the
\* file that is not the flake-compat input.
LatestOfConvert(i) ==
    /\ variant = "convert.rs"
    /\ requests[i].version = None
    /\ ContainsText(inputBuf, GithubValue(requests[i].org, requests[i].repo))
    /\ <<requests[i].org, requests[i].repo>> # <<W_edolstra, W_flake_compat>>

\* C14 (as amended): every failed registry resolution, transport error or
\* non-success status, is returned as an error to the caller of the
\* operation that asked for it, with the response body when there is one,
\* and one request is sent for each resolution, in add and in convert;
\* except that when the conversion pass resolves the latest version of a
\* github:org/repo input without a branch or version segment that is not
\* the flake-compat input, a failure is not returned and the pass goes on
\* with the input left as it is.
C14_FailedResolutionSurfaced ==
    (pc # "idle") =>
        /\ NoRetry
        /\ \A i \in 1..Len(requests) :
              /\ (Failed(i) /\ ~LatestOfConvert(i)) => Surfaced(i)
              /\ (Failed(i) /\ LatestOfConvert(i)) => Swallowed(i)

\* C14's case: convert asked for a version of an input, the registry
\* answered with a non-success status, and the pass returned the body of
\* the response as its error after that one request.
C14_Witness ==
    /\ variant = "convert.rs"
    /\ stage = "inputs"
    /\ Len(requests) = 1
    /\ requests[1].version # None
    /\ requests[1].response = "fail"
    /\ err = RegistryErr("fail")
    /\ pc = "failed"

\* C14 as stated: every failed resolution is returned as an error, the
\* latest version of a github:org/repo input in convert included.
C14_EveryFailureSurfaced ==
    (pc # "idle") =>
        /\ NoRetry
        /\ \A i \in 1..Len(requests) : Failed(i) => Surfaced(i)

====
